---- MODULE Spec2Model ----
(***************************************************************************)
(* Scenario automation engine of sei-defi-agent.                           *)
(*                                                                         *)
(* DynamicAutomationEngine keeps one AutomationContext per owner in the    *)
(* map automationContexts.  The REST layer registers a context from the    *)
(* owner's preferences, replaces its scenario list, or appends a custom    *)
(* scenario.  executeAutomationTasks runs one cycle over the scenario      *)
(* array of the context it fetched; the cycle is suspended while a         *)
(* scenario waits for the language-model agent (agent.invoke), and the     *)
(* REST handlers may run in between.                                       *)
(*                                                                         *)
(* Cycles reach the engine through the executeHandler of the agent class   *)
(* that is deployed in front of it (EnhancedSeiDeFiAgent or                *)
(* CorrectedSeiDeFiAgent).  The legacy SeiDeFiAgent runs next to it: its   *)
(* executeHandler calls the yield strategy, and the emergency-stop and     *)
(* resume routes act on its configuration.                                 *)
(*                                                                         *)
(* Optional JavaScript values (undefined or a value) are sequences of      *)
(* length 0 or 1.  Decimal strings that hold integers ("0") are the        *)
(* integers they parse to.  Scenario ids are the id prefix; the            *)
(* Date.now() suffix is not kept.                                          *)
(***************************************************************************)
EXTENDS Integers, Sequences, FiniteSets, TLC

VARIABLES
    automationContexts, \* owner -> <<>> (no entry) or <<context>>
    switchedOff,        \* owner -> ids the owner's registration preferences switched off
    now,                \* Date.now(), in ms
    pc,                 \* "idle" | "executing" | "done": the executeAutomationTasks call
    cycle,              \* locals of the executeAutomationTasks call
    ret,                \* <<>> or <<ExecutionResult>> returned by the last call
    response,           \* HTTP status of the last REST call, 0 before any
    ops,                \* number of REST calls made
    cycles,             \* number of cycles started
    deployed,           \* "enhanced" | "corrected": the agent class in front of the engine
    autoRebalanceEnabled, \* SeiDeFiAgent.config.autoRebalanceEnabled
    legacy,             \* the SeiDeFiAgent.executeHandler call
    isRunning,          \* EnhancedSeiDeFiAgent.isRunning
    calls,              \* start() call -> where its polling loops stand
    workflow,           \* status that fetchWorkflowState reports
    strategyInput,      \* account and market data handed to the yield strategy
    strategyOutput,     \* what the strategy's calculations returned
    executions,         \* history: the scenario executions of the cycles run so far
    evaluation,         \* a trigger evaluation: the trigger, the live signal, the answer
    round,              \* a pollTasksAndSubmit call: its tasks, its place, what it submitted
    monitor,            \* MonitoringWebSocket: isRunning, clients, the last broadcast
    hook                \* useWebSocketMonitoring: state, refs, sockets and timers

engineVars == <<automationContexts, switchedOff, now, pc, cycle, ret, response, ops, cycles>>

handlerVars == <<deployed, autoRebalanceEnabled, legacy>>

agentVars == <<isRunning, calls, workflow>>

strategyVars == <<strategyInput, strategyOutput>>

historyVars == <<executions>>

triggerVars == <<evaluation>>

pollVars == <<round>>

socketVars == <<monitor>>

hookVars == <<hook>>

\* The components beside the engine, its agents and the strategy.
peripheryVars == <<triggerVars, pollVars, socketVars, hookVars>>

\* The engine, its agents, the strategy and the history of the cycles.
coreVars == <<engineVars, handlerVars, agentVars, strategyVars, historyVars>>

\* What the engine and its REST routes never touch.
outsideEngine == <<handlerVars, agentVars, strategyVars, historyVars, peripheryVars>>

vars == <<engineVars, outsideEngine>>

----------------------------------------------------------------------------
(* Bounds *)

MaxOps == 2
MaxCycles == 1
MaxTicks == 1
MaxStarts == 2

\* Keys of the context map: the engine and the register route take any
\* non-empty string.
Owners == {"0xA", "not-an-address"}

\* ethers.isAddress
isAddress(a) == a \in {"0xA", "0xToken"}

StartTime == 30000
TickMs == 1000

HighPriority == 8

Undefined == <<>>
Some(v) == <<v>>
IsDefined(x) == x # <<>>
Val(x) == x[1]

----------------------------------------------------------------------------
(* Data model *)

Trigger(t, v) == [type |-> t, value |-> v]

\* triggers: [ok |-> TRUE, list |-> <<...>>] for an array, ok = FALSE for a
\* value a for...of cannot iterate (the REST body is unvalidated JSON).
Triggers(list) == [ok |-> TRUE, list |-> list]
BadTriggers == [ok |-> FALSE, list |-> <<>>]

Scenario(id, type, enabled, priority, triggers, lastExecution, hasParameters) ==
    [id |-> id, type |-> type, enabled |-> enabled, priority |-> priority,
     triggers |-> triggers, lastExecution |-> lastExecution,
     hasParameters |-> hasParameters]

----------------------------------------------------------------------------
(* createDefaultScenarios: the scenarios built from the owner's preferences *)

\* An enable preference is "true", "false" or "absent" (undefined).
Truthy(p) == p = "true"

\* preferences.enableX || true
EnabledOrTrue(p) == IF Truthy(p) THEN TRUE ELSE TRUE

\* preferences.xInterval || dflt  (undefined and 0 are falsy)
IntervalOr(x, dflt) == IF IsDefined(x) /\ Val(x) # 0 THEN Val(x) ELSE dflt

DefaultPreferences ==
    [enableYieldOptimization |-> "absent", enablePortfolioRebalancing |-> "absent",
     enableRiskManagement |-> "absent", enablePositionMonitoring |-> "absent",
     enableLiquidationProtection |-> "absent", enableProfitTaking |-> "absent",
     enableStopLoss |-> "absent",
     yieldOptimizationInterval |-> Undefined, rebalancingInterval |-> Undefined,
     riskCheckInterval |-> Undefined, monitoringInterval |-> Undefined]

createDefaultScenarios(preferences) ==
    << Scenario("yield_opt", "yield_optimization",
                EnabledOrTrue(preferences.enableYieldOptimization), 7,
                Triggers(<< Trigger("time_based", IntervalOr(preferences.yieldOptimizationInterval, 24)),
                            Trigger("apy_based", 2) >>), Undefined, TRUE),
       Scenario("portfolio_rebalance", "portfolio_rebalancing",
                EnabledOrTrue(preferences.enablePortfolioRebalancing), 6,
                Triggers(<< Trigger("time_based", IntervalOr(preferences.rebalancingInterval, 12)) >>),
                Undefined, TRUE),
       Scenario("risk_mgmt", "risk_management",
                EnabledOrTrue(preferences.enableRiskManagement), 9,
                Triggers(<< Trigger("time_based", IntervalOr(preferences.riskCheckInterval, 6)),
                            Trigger("health_factor", 2) >>), Undefined, TRUE),
       Scenario("position_monitor", "position_monitoring",
                EnabledOrTrue(preferences.enablePositionMonitoring), 3,
                Triggers(<< Trigger("time_based", IntervalOr(preferences.monitoringInterval, 15)) >>),
                Undefined, TRUE),
       Scenario("liquidation_protection", "liquidation_protection",
                EnabledOrTrue(preferences.enableLiquidationProtection), 10,
                Triggers(<< Trigger("health_factor", 2) >>), Undefined, TRUE) >>
    \o (IF Truthy(preferences.enableProfitTaking)
        THEN << Scenario("profit_taking", "profit_taking", TRUE, 5,
                         Triggers(<< Trigger("profit_threshold", 20) >>), Undefined, TRUE) >>
        ELSE << >>)
    \o (IF Truthy(preferences.enableStopLoss)
        THEN << Scenario("stop_loss", "stop_loss", TRUE, 8,
                         Triggers(<< Trigger("loss_threshold", 15) >>), Undefined, TRUE) >>
        ELSE << >>)

\* The default scenario that each enable preference governs.
PreferenceIds ==
    [enableYieldOptimization |-> "yield_opt", enablePortfolioRebalancing |-> "portfolio_rebalance",
     enableRiskManagement |-> "risk_mgmt", enablePositionMonitoring |-> "position_monitor",
     enableLiquidationProtection |-> "liquidation_protection",
     enableProfitTaking |-> "profit_taking", enableStopLoss |-> "stop_loss"]

\* The ids of the default scenarios the preferences explicitly switch off.
SwitchedOffBy(preferences) ==
    { PreferenceIds[f] : f \in { g \in DOMAIN PreferenceIds : preferences[g] = "false" } }

----------------------------------------------------------------------------
(* scenarios.sort((a, b) => b.priority - a.priority): a stable sort *)

RECURSIVE InsertByPriority(_, _)
InsertByPriority(s, sorted) ==
    IF sorted = << >> THEN << s >>
    ELSE IF Head(sorted).priority >= s.priority
         THEN << Head(sorted) >> \o InsertByPriority(s, Tail(sorted))
         ELSE << s >> \o sorted

RECURSIVE SortByPriority(_)
SortByPriority(scenarios) ==
    IF scenarios = << >> THEN << >>
    ELSE InsertByPriority(scenarios[Len(scenarios)],
                          SortByPriority(SubSeq(scenarios, 1, Len(scenarios) - 1)))

----------------------------------------------------------------------------
(* Trigger evaluation *)

\* (now - (scenario.parameters.lastExecution || 0)) >= trigger.value * 1000
evaluateTimeTrigger(trigger, scenario, t) ==
    LET interval == trigger.value * 1000
        lastExecution == IF IsDefined(scenario.lastExecution) /\ Val(scenario.lastExecution) # 0
                         THEN Val(scenario.lastExecution) ELSE 0
    IN  (t - lastExecution) >= interval

\* The price, APY, health-factor, profit and loss evaluators are placeholders.
evaluatePlaceholderTrigger(trigger, scenario) == TRUE

\* evaluateTrigger: the switch on trigger.type inside try/catch.  Reading
\* scenario.parameters.lastExecution throws when the scenario has no
\* parameters object; the catch turns that into false.
evaluateTrigger(trigger, scenario, t) ==
    CASE trigger.type = "time_based" ->
            IF scenario.hasParameters THEN evaluateTimeTrigger(trigger, scenario, t) ELSE FALSE
      [] trigger.type \in {"price_based", "apy_based", "health_factor",
                           "profit_threshold", "loss_threshold"} ->
            evaluatePlaceholderTrigger(trigger, scenario)
      [] OTHER -> FALSE

\* The triggers combined by OR: the first trigger that is met returns true.
RECURSIVE AnyTriggerMetFrom(_, _, _, _)
AnyTriggerMetFrom(list, k, scenario, t) ==
    IF k > Len(list) THEN k = 1
    ELSE IF evaluateTrigger(list[k], scenario, t) THEN TRUE
    ELSE AnyTriggerMetFrom(list, k + 1, scenario, t)

\* checkScenarioTriggers: the first trigger that is not met returns false.
RECURSIVE TriggersMetFrom(_, _, _, _)
TriggersMetFrom(list, k, scenario, t) ==
    IF k > Len(list) THEN TRUE
    ELSE IF ~evaluateTrigger(list[k], scenario, t) THEN FALSE
    ELSE TriggersMetFrom(list, k + 1, scenario, t)

checkScenarioTriggers(scenario, t) == TriggersMetFrom(scenario.triggers.list, 1, scenario, t)

----------------------------------------------------------------------------
(* SeiDeFiAgentKit: the calls into the language-model agent.  The outcome of *)
(* agent.invoke is "resolved" or "rejected".                                *)

InvokeOutcomes == {"resolved", "rejected"}

AgentResult(success, transactionHash, profit, gasUsed) ==
    [success |-> success, transactionHash |-> transactionHash,
     profit |-> profit, gasUsed |-> gasUsed]

\* optimizeYield reporting the hash of a transaction sent before the failure.
optimizeYieldHashOnFailure(outcome) ==
    IF outcome = "resolved"
    THEN AgentResult(TRUE, Undefined, Some(0), Some(0))
    ELSE AgentResult(FALSE, Some("0xhash"), Undefined, Undefined)

optimizeYield(outcome) ==
    IF outcome = "resolved"
    THEN AgentResult(TRUE, Undefined, Some(0), Some(0))
    ELSE AgentResult(FALSE, Undefined, Undefined, Undefined)

executeStrategy(outcome) ==
    IF outcome = "resolved"
    THEN AgentResult(TRUE, Undefined, Undefined, Undefined)
    ELSE AgentResult(FALSE, Undefined, Undefined, Undefined)

\* assessRisk rethrows a rejected invoke.
assessRiskThrows(outcome) == outcome = "rejected"

----------------------------------------------------------------------------
(* executeScenario and the per-type executors *)

ScenarioResult(scenario, success, executed, message, transactions, profit, gasUsed) ==
    [scenarioId |-> scenario.id, success |-> success, executed |-> executed,
     message |-> message, transactions |-> transactions,
     profit |-> profit, gasUsed |-> gasUsed]

\* The catch block of an executor.
ExecutorError(scenario) ==
    ScenarioResult(scenario, FALSE, FALSE, "error", Undefined, Undefined, Undefined)

DelegatedTypes == {"portfolio_rebalancing", "liquidation_protection", "profit_taking", "stop_loss"}

KnownTypes == {"yield_optimization", "risk_management", "position_monitoring"} \cup DelegatedTypes

executeYieldOptimization(scenario, outcome) ==
    LET result == optimizeYield(outcome)
    IN  ScenarioResult(scenario, result.success, result.success,
                       IF result.success THEN "completed" ELSE "failed",
                       Some(IF IsDefined(result.transactionHash)
                            THEN << Val(result.transactionHash) >> ELSE << >>),
                       result.profit, result.gasUsed)

\* executePortfolioRebalancing, executeLiquidationProtection,
\* executeProfitTaking, executeStopLoss
executeDelegated(scenario, outcome) ==
    LET result == executeStrategy(outcome)
    IN  ScenarioResult(scenario, result.success, result.success,
                       IF result.success THEN "completed" ELSE "failed",
                       Undefined, result.profit, result.gasUsed)

executeRiskManagement(scenario, outcome1, outcome2) ==
    IF assessRiskThrows(outcome1) \/ ~scenario.hasParameters
    THEN ExecutorError(scenario)
    ELSE executeDelegated(scenario, outcome2)

executePositionMonitoring(scenario, outcome) ==
    LET result == executeStrategy(outcome)
    IN  ScenarioResult(scenario, result.success, FALSE,
                       IF result.success THEN "completed" ELSE "failed",
                       Undefined, Undefined, Undefined)

\* An executor reaches the agent unless it throws first: every executor but
\* executeRiskManagement reads scenario.parameters before its first await,
\* and an unknown type has no executor.
ReachesAgent(scenario) ==
    /\ scenario.type \in KnownTypes
    /\ scenario.hasParameters \/ scenario.type = "risk_management"

executeScenario(scenario, outcome1, outcome2) ==
    CASE scenario.type \notin KnownTypes ->
            ScenarioResult(scenario, FALSE, FALSE, "unknown type", Undefined, Undefined, Undefined)
      [] scenario.type = "risk_management" -> executeRiskManagement(scenario, outcome1, outcome2)
      [] scenario.type \in KnownTypes \ {"risk_management"} /\ ~scenario.hasParameters ->
            ExecutorError(scenario)
      [] scenario.type = "yield_optimization" /\ scenario.hasParameters ->
            executeYieldOptimization(scenario, outcome1)
      [] scenario.type = "position_monitoring" /\ scenario.hasParameters ->
            executePositionMonitoring(scenario, outcome1)
      [] scenario.type \in DelegatedTypes /\ scenario.hasParameters ->
            executeDelegated(scenario, outcome1)

----------------------------------------------------------------------------
(* Performance metrics.  successRate is the fraction num/den in lowest terms. *)

RECURSIVE Gcd(_, _)
Gcd(a, b) == IF b = 0 THEN a ELSE Gcd(b, a % b)

Fraction(num, den) ==
    LET g == Gcd(num, den) IN [num |-> num \div g, den |-> den \div g]

InitialMetrics ==
    [totalExecutions |-> 0, successRate |-> Fraction(0, 1),
     totalProfit |-> 0, totalGasCost |-> 0, lastExecution |-> 0]

\* parseFloat(x || '0')
ParseOrZero(x) == IF IsDefined(x) THEN Val(x) ELSE 0

updatePerformanceMetrics(pm, result, t) ==
    LET n == pm.totalExecutions + 1
        rate == pm.successRate
    IN  [totalExecutions |-> n,
         lastExecution |-> t,
         successRate |-> IF result.success
                         THEN Fraction(rate.num * (n - 1) + rate.den, rate.den * n)
                         ELSE rate,
         totalProfit |-> IF IsDefined(result.profit)
                         THEN pm.totalProfit + Val(result.profit) ELSE pm.totalProfit,
         totalGasCost |-> IF IsDefined(result.gasUsed)
                          THEN pm.totalGasCost + Val(result.gasUsed) ELSE pm.totalGasCost]

----------------------------------------------------------------------------
(* executeAutomationTasks *)

Context(scenarios, performanceMetrics) ==
    [scenarios |-> scenarios, performanceMetrics |-> performanceMetrics]

\* The locals of a call: the owner, the scenario array and the metrics object
\* of the context it fetched, the loop position, and what it has collected.
\* evaluated and dispatched list the array positions handed to
\* checkScenarioTriggers and to executeScenario, in call order.
\* contextReplaced: a later registration put another context object (with
\* its own metrics object) in the map; the call still holds the old one.
\* threw: the call rejected instead of returning.  switchedOff: the ids the
\* owner's preferences had switched off when the call began.
IdleCycle ==
    [owner |-> "", scenarios |-> << >>, performanceMetrics |-> InitialMetrics,
     i |-> 0, results |-> << >>, totalTransactions |-> << >>,
     totalProfit |-> 0, totalGasUsed |-> 0,
     evaluated |-> << >>, dispatched |-> << >>,
     contextReplaced |-> FALSE, finished |-> FALSE, threw |-> FALSE,
     switchedOff |-> {}]

NewCycle(owner, context, off) ==
    [IdleCycle EXCEPT !.owner = owner, !.scenarios = context.scenarios,
                      !.performanceMetrics = context.performanceMetrics,
                      !.switchedOff = off]

\* The break taken on the priority alone.
PreemptsUnexecuted(scenario, result) == scenario.priority > HighPriority

\* No break.
NeverPreempts(scenario, result) == FALSE

\* if (scenario.priority > 8 && result.executed) break
Preempts(scenario, result) == scenario.priority > HighPriority /\ result.executed

\* if (result.success && result.executed && result.transactions)
Aggregated(result) == result.success /\ result.executed /\ IsDefined(result.transactions)

\* Lines 155-164: push the result, add it to the totals, update the metrics.
RecordResult(c, result, t) ==
    [c EXCEPT
        !.results = Append(@, result),
        !.totalTransactions = IF Aggregated(result) THEN @ \o Val(result.transactions) ELSE @,
        !.totalProfit = IF Aggregated(result) THEN @ + ParseOrZero(result.profit) ELSE @,
        !.totalGasUsed = IF Aggregated(result) THEN @ + ParseOrZero(result.gasUsed) ELSE @,
        !.performanceMetrics = updatePerformanceMetrics(@, result, t)]

TriggersNotMet(scenario) ==
    ScenarioResult(scenario, TRUE, FALSE, "Triggers not met, skipping scenario",
                   Undefined, Undefined, Undefined)

\* The catch block of the loop body.
LoopError(scenario) ==
    ScenarioResult(scenario, FALSE, FALSE, "Error", Undefined, Undefined, Undefined)

\* A catch block that rethrows: the call rejects.
RethrowLoopError(c, scenario) == [c EXCEPT !.threw = TRUE, !.finished = TRUE]

\* The catch block of the loop body reports the error; it neither rethrows
\* nor breaks.
CatchLoopError(c, scenario) == [c EXCEPT !.results = Append(@, LoopError(scenario))]

\* The for loop from position i up to its next wait for the agent, or to its
\* end.  A for...of over triggers that are not an array throws inside
\* checkScenarioTriggers, which the loop's catch reports.
RECURSIVE RunLoop(_, _, _)
RunLoop(c, i, t) ==
    IF i > Len(c.scenarios) THEN [c EXCEPT !.i = i, !.finished = TRUE]
    ELSE
      LET scenario == c.scenarios[i]
          checked == [c EXCEPT !.evaluated = Append(@, i)]
          started == [checked EXCEPT !.dispatched = Append(@, i)]
      IN  IF ~scenario.enabled THEN RunLoop(c, i + 1, t)
          ELSE IF ~scenario.triggers.ok
               THEN LET caught == CatchLoopError(checked, scenario)
                    IN  IF caught.finished THEN caught ELSE RunLoop(caught, i + 1, t)
          ELSE IF ~checkScenarioTriggers(scenario, t)
               THEN RunLoop([checked EXCEPT !.results = Append(@, TriggersNotMet(scenario))], i + 1, t)
          ELSE IF ReachesAgent(scenario)
               THEN [started EXCEPT !.i = i]
          ELSE LET result == executeScenario(scenario, "resolved", "resolved")
                   recorded == RecordResult(started, result, t)
               IN  IF Preempts(scenario, result)
                   THEN [recorded EXCEPT !.i = i, !.finished = TRUE]
                   ELSE RunLoop(recorded, i + 1, t)

\* The loop after the agent answered the scenario at position c.i.
ResumeLoop(c, outcome1, outcome2, t) ==
    LET scenario == c.scenarios[c.i]
        result == executeScenario(scenario, outcome1, outcome2)
        recorded == RecordResult(c, result, t)
    IN  IF Preempts(scenario, result)
        THEN [recorded EXCEPT !.finished = TRUE]
        ELSE RunLoop(recorded, c.i + 1, t)

IsExecuted(r) == r.executed
IsSuccessful(r) == r.success /\ r.executed

\* results.filter(r => r.executed).length
CountExecuted(results) == Cardinality({ k \in 1..Len(results) : IsExecuted(results[k]) })

\* results.filter(r => r.success && r.executed).length
CountSuccessful(results) == Cardinality({ k \in 1..Len(results) : IsSuccessful(results[k]) })

\* Summarise with the branch taken on the number of executed scenarios.
SummariseByExecuted(c) ==
    LET summary == [totalScenarios |-> Len(c.results),
                    executedScenarios |-> CountExecuted(c.results),
                    successfulScenarios |-> CountSuccessful(c.results),
                    totalProfit |-> c.totalProfit, totalGasUsed |-> c.totalGasUsed,
                    scenarios |-> c.results]
    IN  IF CountExecuted(c.results) > 0
        THEN [skip |-> FALSE, message |-> "Executed scenarios successfully",
              transactions |-> Some(c.totalTransactions), gasEstimate |-> c.totalGasUsed,
              expectedProfit |-> Some(c.totalProfit), metadata |-> Some(summary)]
        ELSE [skip |-> TRUE, message |-> "No scenarios required execution",
              transactions |-> Undefined, gasEstimate |-> 0,
              expectedProfit |-> Undefined, metadata |-> Some(summary)]

\* Lines 184-213: the summary and the returned ExecutionResult.
Summarise(c) ==
    LET summary == [totalScenarios |-> Len(c.results),
                    executedScenarios |-> CountExecuted(c.results),
                    successfulScenarios |-> CountSuccessful(c.results),
                    totalProfit |-> c.totalProfit, totalGasUsed |-> c.totalGasUsed,
                    scenarios |-> c.results]
    IN  IF Len(c.totalTransactions) > 0
        THEN [skip |-> FALSE, message |-> "Executed scenarios successfully",
              transactions |-> Some(c.totalTransactions), gasEstimate |-> c.totalGasUsed,
              expectedProfit |-> Some(c.totalProfit), metadata |-> Some(summary)]
        ELSE [skip |-> TRUE, message |-> "No scenarios required execution",
              transactions |-> Undefined, gasEstimate |-> 0,
              expectedProfit |-> Undefined, metadata |-> Some(summary)]

\* A missing context reported as an executed cycle without transactions.
NoContextResultExecuted ==
    [skip |-> FALSE, message |-> "Executed 0 scenarios successfully",
     transactions |-> Some(<< >>), gasEstimate |-> 0,
     expectedProfit |-> Some(0), metadata |-> Undefined]

NoContextResult ==
    [skip |-> TRUE, message |-> "No automation context found for user",
     transactions |-> Undefined, gasEstimate |-> 0,
     expectedProfit |-> Undefined, metadata |-> Undefined]

----------------------------------------------------------------------------
(* The registry *)

registerAutomationContext(contexts, userAddress, scenarios) ==
    [contexts EXCEPT ![userAddress] = Some(Context(SortByPriority(scenarios), InitialMetrics))]

\* { ...existingContext, ...context }: partial.scenarios is Undefined or the
\* new array; the metrics object is shared with the existing context.
updateAutomationContext(contexts, userAddress, partial) ==
    IF IsDefined(contexts[userAddress])
    THEN [contexts EXCEPT ![userAddress] =
            Some([Val(@) EXCEPT !.scenarios = IF IsDefined(partial.scenarios)
                                             THEN Val(partial.scenarios) ELSE @])]
    ELSE contexts

\* An update that creates the context it does not find.
upsertUserScenarios(contexts, userAddress, scenarios) ==
    [contexts EXCEPT ![userAddress] =
        Some(Context(scenarios, IF IsDefined(@) THEN Val(@).performanceMetrics
                                ELSE InitialMetrics))]

updateUserScenarios(contexts, userAddress, scenarios) ==
    IF IsDefined(contexts[userAddress])
    THEN updateAutomationContext(contexts, userAddress, [scenarios |-> Some(scenarios)])
    ELSE contexts

\* The metrics object the call mutates is the one in the map unless a later
\* registration replaced the context.
WriteMetrics(contexts, c) ==
    IF c.contextReplaced \/ ~IsDefined(contexts[c.owner]) THEN contexts
    ELSE [contexts EXCEPT ![c.owner] =
            Some([Val(@) EXCEPT !.performanceMetrics = c.performanceMetrics])]

----------------------------------------------------------------------------
(* Task parameters and their validation *)

ChainId == 1329

\* taskParams: the sub-account, the chain and subscription.metadata.baseToken
TaskParams(subAccountAddress, chainID, baseToken) ==
    [subAccountAddress |-> subAccountAddress, chainID |-> chainID, baseToken |-> baseToken]

\* SeiDeFiAgent.validateTaskParams
validateTaskParams(taskParams) ==
    /\ isAddress(taskParams.subAccountAddress)
    /\ taskParams.chainID = ChainId
    /\ IsDefined(taskParams.baseToken)
    /\ isAddress(Val(taskParams.baseToken))

\* CorrectedSeiDeFiAgent.validateTaskParams
correctedValidateTaskParams(taskParams) ==
    /\ IsDefined(taskParams.baseToken)
    /\ isAddress(taskParams.subAccountAddress)

\* The result of a handler that turns the task down before it does anything.
InvalidTaskResult == [skip |-> TRUE, message |-> "Invalid task parameters", transactions |-> Undefined]

CorrectedInvalidTaskResult ==
    [skip |-> TRUE, message |-> "Invalid task parameters",
     transactions |-> Undefined, gasEstimate |-> 0,
     expectedProfit |-> Undefined, metadata |-> Undefined]

----------------------------------------------------------------------------
(* SeiDeFiAgent: the legacy agent *)

DisabledResult ==
    [skip |-> TRUE, message |-> "Auto-rebalancing is disabled", transactions |-> Undefined]

\* What YieldOptimizationStrategy.executeStrategy resolves to: a skip, or the
\* transactions it generated for its rebalance actions (none when every
\* generation failed).
StrategyOutcomes == {"skip", "none generated", "rebalance"}

strategyResult(outcome) ==
    CASE outcome = "skip" -> [skip |-> TRUE, message |-> "skip", transactions |-> Undefined]
      [] outcome = "none generated" ->
            [skip |-> FALSE, message |-> "Rebalancing portfolio", transactions |-> Some(<< >>)]
      [] outcome = "rebalance" ->
            [skip |-> FALSE, message |-> "Rebalancing portfolio", transactions |-> Some(<< "tx" >>)]

\* The executeHandler call of the legacy agent and what it has done so far.
LegacyIdle ==
    [pc |-> "idle", taskParams |-> Undefined, enabledAtEntry |-> TRUE,
     strategyCalled |-> FALSE, ret |-> Undefined, totalTrades |-> 0]

\* executeHandler up to its wait for the strategy; a handler that returns
\* right away is done.
legacyExecuteHandler(l, taskParams, enabled) ==
    LET entered == [l EXCEPT !.taskParams = Some(taskParams), !.enabledAtEntry = enabled,
                             !.strategyCalled = FALSE, !.ret = Undefined]
    IN  IF ~validateTaskParams(taskParams)
        THEN [entered EXCEPT !.pc = "done", !.ret = Some(InvalidTaskResult)]
        ELSE IF ~enabled
        THEN [entered EXCEPT !.pc = "done", !.ret = Some(DisabledResult)]
        ELSE [entered EXCEPT !.pc = "strategy", !.strategyCalled = TRUE]

\* The rest of executeHandler: updatePerformanceMetrics counts the trades.
legacyStrategyReturned(l, result) ==
    [l EXCEPT !.pc = "done", !.ret = Some(result),
              !.totalTrades = IF IsDefined(result.transactions)
                              THEN @ + Len(Val(result.transactions)) ELSE @]

----------------------------------------------------------------------------
(* EnhancedSeiDeFiAgent: start, stop and the polling loops *)

\* A start() call: where poll and the pollForever it runs stand, the tasks
\* pollTasksAndSubmit fetched and the one it is handling.
\*   "getState"   poll awaits getWorkflowState
\*   "fetchTasks" pollTasksAndSubmit awaits fetchTasks
\*   "handler"    pollTasksAndSubmit awaits executeHandler(tasks[i])
\*   "innerSleep" pollForever sleeps between two rounds
\*   "outerSleep" poll sleeps after pollForever returned
\*   "returned"   start() has returned
NotStarted == [pc |-> "none", tasks |-> << >>, i |-> 0]

At(position) == [pc |-> position, tasks |-> << >>, i |-> 0]

\* isWorkflowComplete
isWorkflowComplete(workflowState) ==
    IsDefined(workflowState) /\ Val(workflowState) \in {"COMPLETED", "FAILED"}

\* while (this.isRunning) in pollForever: another round, or pollForever
\* returns true and poll goes to sleep.
pollForeverTest(running) == IF running THEN At("fetchTasks") ELSE At("outerSleep")

\* The for loop of pollTasksAndSubmit from task i on, up to the next task of
\* this chain; tasks of other chains are passed over.
RECURSIVE nextTask(_, _)
nextTask(tasks, i) ==
    IF i > Len(tasks) THEN At("innerSleep")
    ELSE IF tasks[i].chainID # ChainId THEN nextTask(tasks, i + 1)
    ELSE [pc |-> "handler", tasks |-> tasks, i |-> i]

\* pollTasksAndSubmit after fetchTasks settled (rejected: fetched is
\* Undefined, the function returns false and pollForever sleeps).
tasksFetched(fetched) ==
    IF ~IsDefined(fetched) THEN At("innerSleep") ELSE nextTask(Val(fetched), 1)

\* The owners whose executeAutomationTasks cycle the call is waiting for.
InFlight(call) ==
    IF call.pc = "handler" THEN {call.tasks[call.i].subAccountAddress} ELSE {}

----------------------------------------------------------------------------
(* Inputs *)

PreferenceSets ==
    { DefaultPreferences,
      [DefaultPreferences EXCEPT !.enableRiskManagement = "false",
                                 !.enableProfitTaking = "true", !.enableStopLoss = "true",
                                 !.enableLiquidationProtection = "true",
                                 !.monitoringInterval = Some(31)] }

\* Scenarios of request bodies.
c_liq == Scenario("c_liq", "liquidation_protection", TRUE, 10,
                  Triggers(<< Trigger("health_factor", 2) >>), Undefined, TRUE)
c_mon == Scenario("c_mon", "position_monitoring", TRUE, 9, Triggers(<< >>), Undefined, TRUE)
c_off == Scenario("c_off", "risk_management", FALSE, 9, Triggers(<< >>), Undefined, TRUE)
c_stop == Scenario("c_stop", "stop_loss", TRUE, 8,
                   Triggers(<< Trigger("loss_threshold", 15), Trigger("volume_based", 1) >>),
                   Undefined, TRUE)
c_yield == Scenario("c_yield", "yield_optimization", TRUE, 7,
                    Triggers(<< Trigger("apy_based", 2), Trigger("time_based", 1) >>),
                    Some(StartTime), TRUE)
c_rebal == Scenario("c_rebal", "portfolio_rebalancing", TRUE, 6, BadTriggers, Undefined, TRUE)
c_bare == Scenario("c_bare", "portfolio_rebalancing", TRUE, 6,
                   Triggers(<< Trigger("time_based", 0) >>), Undefined, FALSE)
c_open == Scenario("c_open", "yield_optimization", TRUE, 6, Triggers(<< >>), Undefined, FALSE)
c_arb == Scenario("c_arb", "arbitrage", TRUE, 6, Triggers(<< >>), Undefined, TRUE)
c_profit == Scenario("c_profit", "profit_taking", TRUE, 5,
                     Triggers(<< Trigger("profit_threshold", 20) >>), Undefined, TRUE)

\* The scenario arrays of PUT /automation/scenarios bodies.
ScenarioLists ==
    { << >>,
      << c_profit, c_liq >>,
      << c_liq, c_profit >>,
      << c_mon, c_off, c_stop, c_yield >>,
      << c_rebal, c_bare, c_open, c_arb, c_profit >> }

\* The scenario of a POST /automation/scenarios/custom body: id, enabled and
\* priority are optional.
Body(scenario, withDefaults) ==
    [id |-> IF withDefaults THEN Undefined ELSE Some(scenario.id),
     enabled |-> IF withDefaults THEN Undefined ELSE Some(scenario.enabled),
     priority |-> IF withDefaults THEN Undefined ELSE Some(scenario.priority),
     type |-> scenario.type, triggers |-> scenario.triggers,
     lastExecution |-> scenario.lastExecution, hasParameters |-> scenario.hasParameters]

CustomBodies == { Body(c_liq, FALSE), Body(c_off, FALSE), Body(c_yield, TRUE), Body(c_bare, TRUE) }

\* The task parameters the poller hands to a handler.
Tasks ==
    { TaskParams("0xA", ChainId, Some("0xToken")),
      TaskParams("not-an-address", ChainId, Some("0xToken")),
      TaskParams("0xA", 1, Some("0xToken")),
      TaskParams("0xA", ChainId, Some("not-a-token")),
      TaskParams("0xA", ChainId, Undefined) }

ValidTask == TaskParams("0xA", ChainId, Some("0xToken"))

\* What fetchTasks resolves to.
TaskLists ==
    { << >>,
      << ValidTask >>,
      << ValidTask, ValidTask >>,
      << TaskParams("0xA", 1, Some("0xToken")), TaskParams("not-an-address", ChainId, Some("0xToken")) >> }

\* { id: `custom_...`, enabled: true, priority: scenario.priority || 5, ...scenario }
customScenario(body) ==
    Scenario(IF IsDefined(body.id) THEN Val(body.id) ELSE "custom",
             body.type,
             IF IsDefined(body.enabled) THEN Val(body.enabled) ELSE TRUE,
             IF IsDefined(body.priority) THEN Val(body.priority) ELSE 5,
             body.triggers, body.lastExecution, body.hasParameters)

----------------------------------------------------------------------------
(* State machine *)

EngineInit ==
    /\ automationContexts = [o \in Owners |-> Undefined]
    /\ switchedOff = [o \in Owners |-> {}]
    /\ now = StartTime
    /\ pc = "idle"
    /\ cycle = IdleCycle
    /\ ret = Undefined
    /\ response = 0
    /\ ops = 0
    /\ cycles = 0

AgentInit ==
    /\ isRunning = FALSE
    /\ calls = [k \in 1..MaxStarts |-> NotStarted]
    /\ workflow = "RUNNING"

StrategyIdle ==
    /\ strategyInput = Undefined
    /\ strategyOutput = Undefined

NoHistory == executions = {}

NoEvaluation == evaluation = Undefined

\* A pollTasksAndSubmit call of one of the three agents.
\*   "idle"       no call is running
\*   "fetchTasks" the call awaits the pending tasks
\*   "handler"    it awaits executeHandler for tasks[i]
\*   "nonce"      it awaits the executor nonce for tasks[i]
\*   "submit"     it awaits executeTransaction for tasks[i]
\*   "returned"   the call returned ret
\* handled holds the tasks the for loop reached, failed the ones whose
\* processing threw, submitted the executeTransaction calls made.
RoundIdle ==
    [agent |-> "enhanced", pc |-> "idle", tasks |-> << >>, i |-> 0, result |-> Undefined,
     handled |-> {}, failed |-> {}, submitted |-> {}, ret |-> Undefined]

NoRound == round = RoundIdle

\* The connections the monitoring server can hold.
Connections == {"ws1", "ws2"}

\* MonitoringWebSocket after its constructor: not running, no client.
\* readyState is the state of every connection ("NONE" when there is
\* none); broadcasts counts the broadcast calls, last is the data of the
\* last one and sent the connections it was sent to.
MonitorInit ==
    [isRunning |-> FALSE,
     clients |-> [ws \in Connections |-> Undefined],
     readyState |-> [ws \in Connections |-> "NONE"],
     broadcasts |-> 0, last |-> Undefined, sent |-> {}]

NoServer == monitor = MonitorInit

MaxSockets == 4

\* useWebSocketMonitoring after its first render with autoConnect off.
\* sockets holds the readyState of every WebSocket the hook created
\* ("UNUSED" before), in the order of their creation; timers holds the
\* pending reconnect timers, each named after the socket whose onclose set
\* it; wsRef and reconnectTimeoutRef are 0 for null.  History: attempts
\* counts the sockets created, automatic the ones a reconnect timer created
\* since the last onopen, afterDisconnect tells that disconnect() was called
\* and connect() has not been called since.
HookInit ==
    [isConnected |-> FALSE, isConnecting |-> FALSE,
     wsRef |-> 0, reconnectTimeoutRef |-> 0, reconnectAttempts |-> 0,
     sockets |-> [s \in 1..MaxSockets |-> "UNUSED"], timers |-> {},
     attempts |-> 0, automatic |-> 0, afterDisconnect |-> FALSE]

NoHook == hook = HookInit

PeripheryIdle == NoEvaluation /\ NoRound /\ NoServer /\ NoHook

Init ==
    /\ EngineInit
    /\ deployed = "enhanced"
    /\ autoRebalanceEnabled = TRUE
    /\ legacy = LegacyIdle
    /\ AgentInit
    /\ StrategyIdle
    /\ NoHistory
    /\ PeripheryIdle

\* A registration while a call for the same owner waits for the agent leaves
\* that call with the context object it fetched.
Detach(c, owner) ==
    IF pc = "executing" /\ c.owner = owner THEN [c EXCEPT !.contextReplaced = TRUE] ELSE c

\* POST /automation/register
RegisterAutomation(userAddress, preferences) ==
    /\ pc # "done"
    /\ ops < MaxOps
    /\ automationContexts' =
          registerAutomationContext(automationContexts, userAddress,
                                    createDefaultScenarios(preferences))
    /\ switchedOff' = [switchedOff EXCEPT ![userAddress] = SwitchedOffBy(preferences)]
    /\ cycle' = Detach(cycle, userAddress)
    /\ response' = 200
    /\ ops' = ops + 1
    /\ UNCHANGED <<now, pc, ret, cycles>>
    /\ UNCHANGED outsideEngine

\* PUT /automation/scenarios/:userAddress
PutScenarios(userAddress, scenarios) ==
    /\ pc # "done"
    /\ ops < MaxOps
    /\ automationContexts' = updateUserScenarios(automationContexts, userAddress, scenarios)
    /\ switchedOff' = IF IsDefined(automationContexts[userAddress])
                      THEN [switchedOff EXCEPT ![userAddress] = {}]
                      ELSE switchedOff
    /\ response' = 200
    /\ ops' = ops + 1
    /\ UNCHANGED <<now, pc, cycle, ret, cycles>>
    /\ UNCHANGED outsideEngine

\* POST /automation/scenarios/custom
PostCustomScenario(userAddress, body) ==
    /\ pc # "done"
    /\ ops < MaxOps
    /\ IF ~body.hasParameters
       THEN /\ response' = 400
            /\ UNCHANGED automationContexts
       ELSE IF ~IsDefined(automationContexts[userAddress])
       THEN /\ response' = 404
            /\ UNCHANGED automationContexts
       ELSE /\ automationContexts' =
                  updateUserScenarios(automationContexts, userAddress,
                      Append(Val(automationContexts[userAddress]).scenarios,
                             customScenario(body)))
            /\ response' = 200
    /\ ops' = ops + 1
    /\ UNCHANGED <<switchedOff, now, pc, cycle, ret, cycles>>
    /\ UNCHANGED outsideEngine

\* The call ends: it returns the summary.
Settle(c) ==
    /\ cycle' = c
    /\ automationContexts' = WriteMetrics(automationContexts, c)
    /\ pc' = IF c.finished THEN "done" ELSE "executing"
    /\ ret' = IF c.finished /\ ~c.threw THEN Some(Summarise(c)) ELSE Undefined

\* executeAutomationTasks(taskParams) up to its first wait for the agent
StartCycle(userAddress) ==
    /\ pc = "idle"
    /\ cycles < MaxCycles
    /\ cycles' = cycles + 1
    /\ IF ~IsDefined(automationContexts[userAddress])
       THEN /\ cycle' = [IdleCycle EXCEPT !.owner = userAddress, !.finished = TRUE]
            /\ pc' = "done"
            /\ ret' = Some(NoContextResult)
            /\ UNCHANGED automationContexts
       ELSE Settle(RunLoop(NewCycle(userAddress, Val(automationContexts[userAddress]),
                                    switchedOff[userAddress]), 1, now))
    /\ UNCHANGED <<switchedOff, now, response, ops>>
    /\ UNCHANGED outsideEngine

\* The agent answers the waiting scenario and the loop goes on.
AgentAnswers(outcome1, outcome2) ==
    /\ pc = "executing"
    /\ Settle(ResumeLoop(cycle, outcome1, outcome2, now))
    /\ UNCHANGED <<switchedOff, now, response, ops, cycles>>
    /\ UNCHANGED outsideEngine

\* executeHandler takes the result; the locals of the call are gone.
Return ==
    /\ pc = "done"
    /\ pc' = "idle"
    /\ cycle' = IdleCycle
    /\ ret' = Undefined
    /\ UNCHANGED <<automationContexts, switchedOff, now, response, ops, cycles>>
    /\ UNCHANGED outsideEngine

Tick ==
    /\ pc # "done"
    /\ now < StartTime + MaxTicks * TickMs
    /\ now' = now + TickMs
    /\ UNCHANGED <<automationContexts, switchedOff, pc, cycle, ret, response, ops, cycles>>
    /\ UNCHANGED outsideEngine

Next ==
    \/ \E o \in Owners, p \in PreferenceSets : RegisterAutomation(o, p)
    \/ \E o \in Owners, l \in ScenarioLists : PutScenarios(o, l)
    \/ \E o \in Owners, b \in CustomBodies : PostCustomScenario(o, b)
    \/ \E o \in Owners : StartCycle(o)
    \/ \E o1 \in InvokeOutcomes, o2 \in InvokeOutcomes : AgentAnswers(o1, o2)
    \/ Return
    \/ Tick

Spec == Init /\ [][Next]_vars

----------------------------------------------------------------------------
(* The handlers in front of the engine, the legacy agent and its controls *)

\* AUTO_REBALANCE_ENABLED is read from the environment; either agent class
\* may be the one deployed.
InitHandlers ==
    /\ EngineInit
    /\ deployed \in {"enhanced", "corrected"}
    /\ autoRebalanceEnabled \in BOOLEAN
    /\ legacy = LegacyIdle
    /\ AgentInit
    /\ StrategyIdle
    /\ NoHistory
    /\ PeripheryIdle

\* EnhancedSeiDeFiAgent.executeHandler hands the task to the engine as it is.
EnhancedExecuteHandler(taskParams) ==
    /\ deployed = "enhanced"
    /\ StartCycle(taskParams.subAccountAddress)

\* CorrectedSeiDeFiAgent.executeHandler validates the task first.
CorrectedExecuteHandler(taskParams) ==
    /\ deployed = "corrected"
    /\ IF correctedValidateTaskParams(taskParams)
       THEN StartCycle(taskParams.subAccountAddress)
       ELSE /\ pc = "idle"
            /\ cycles < MaxCycles
            /\ cycles' = cycles + 1
            /\ cycle' = [IdleCycle EXCEPT !.owner = taskParams.subAccountAddress,
                                          !.finished = TRUE]
            /\ pc' = "done"
            /\ ret' = Some(CorrectedInvalidTaskResult)
            /\ UNCHANGED <<automationContexts, switchedOff, now, response, ops>>
            /\ UNCHANGED outsideEngine

\* SeiDeFiAgent.executeHandler up to its wait for the strategy
LegacyExecuteHandler(taskParams) ==
    /\ legacy.pc = "idle"
    /\ pc = "idle"
    /\ cycles < MaxCycles
    /\ cycles' = cycles + 1
    /\ legacy' = legacyExecuteHandler(legacy, taskParams, autoRebalanceEnabled)
    /\ UNCHANGED <<automationContexts, switchedOff, now, pc, cycle, ret, response, ops>>
    /\ UNCHANGED <<deployed, autoRebalanceEnabled, agentVars, strategyVars, historyVars, peripheryVars>>

\* The strategy resolves and executeHandler returns its result.
LegacyStrategyReturns(outcome) ==
    /\ legacy.pc = "strategy"
    /\ legacy' = legacyStrategyReturned(legacy, strategyResult(outcome))
    /\ UNCHANGED engineVars
    /\ UNCHANGED <<deployed, autoRebalanceEnabled, agentVars, strategyVars, historyVars, peripheryVars>>

\* The poller takes the result of the legacy handler.
LegacyReturn ==
    /\ legacy.pc = "done"
    /\ legacy' = [LegacyIdle EXCEPT !.totalTrades = legacy.totalTrades]
    /\ UNCHANGED engineVars
    /\ UNCHANGED <<deployed, autoRebalanceEnabled, agentVars, strategyVars, historyVars, peripheryVars>>

\* POST /emergency-stop: SeiDeFiAgent.emergencyStop
EmergencyStop ==
    /\ pc # "done"
    /\ ops < MaxOps
    /\ autoRebalanceEnabled' = FALSE
    /\ response' = 200
    /\ ops' = ops + 1
    /\ UNCHANGED <<automationContexts, switchedOff, now, pc, cycle, ret, cycles>>
    /\ UNCHANGED <<deployed, legacy, agentVars, strategyVars, historyVars, peripheryVars>>

\* POST /resume: SeiDeFiAgent.resumeAutomation
ResumeAutomation ==
    /\ pc # "done"
    /\ ops < MaxOps
    /\ autoRebalanceEnabled' = TRUE
    /\ response' = 200
    /\ ops' = ops + 1
    /\ UNCHANGED <<automationContexts, switchedOff, now, pc, cycle, ret, cycles>>
    /\ UNCHANGED <<deployed, legacy, agentVars, strategyVars, historyVars, peripheryVars>>

NextHandlers ==
    \/ \E o \in Owners, p \in PreferenceSets : RegisterAutomation(o, p)
    \/ \E t \in Tasks : EnhancedExecuteHandler(t)
    \/ \E t \in Tasks : CorrectedExecuteHandler(t)
    \/ \E o1 \in InvokeOutcomes, o2 \in InvokeOutcomes : AgentAnswers(o1, o2)
    \/ Return
    \/ \E t \in Tasks : LegacyExecuteHandler(t)
    \/ \E o \in StrategyOutcomes : LegacyStrategyReturns(o)
    \/ LegacyReturn
    \/ EmergencyStop
    \/ ResumeAutomation
    \/ Tick

SpecHandlers == InitHandlers /\ [][NextHandlers]_vars

----------------------------------------------------------------------------
(* The agent's polling loops *)

\* start(): a call made while isRunning is set returns at once.
Start(k) ==
    /\ calls[k].pc = "none"
    /\ \A j \in 1..(k - 1) : calls[j].pc # "none"
    /\ IF isRunning
       THEN /\ calls' = [calls EXCEPT ![k] = At("returned")]
            /\ UNCHANGED isRunning
       ELSE /\ isRunning' = TRUE
            /\ calls' = [calls EXCEPT ![k] = At("getState")]
    /\ UNCHANGED <<workflow, engineVars, handlerVars, strategyVars, historyVars, peripheryVars>>

\* stop()
Stop ==
    /\ isRunning
    /\ isRunning' = FALSE
    /\ UNCHANGED <<calls, workflow, engineVars, handlerVars, strategyVars, historyVars, peripheryVars>>

\* poll: getWorkflowState settled (undefined when the fetch failed).
StateFetched(k, fetched) ==
    /\ calls[k].pc = "getState"
    /\ LET workflowState == IF fetched THEN Some(workflow) ELSE Undefined
       IN  calls' = [calls EXCEPT ![k] = IF isWorkflowComplete(workflowState)
                                         THEN At("returned")
                                         ELSE pollForeverTest(isRunning)]
    /\ UNCHANGED <<isRunning, workflow, engineVars, handlerVars, strategyVars, historyVars, peripheryVars>>

\* pollTasksAndSubmit: fetchTasks settled.
TasksFetched(k, fetched) ==
    /\ calls[k].pc = "fetchTasks"
    /\ calls' = [calls EXCEPT ![k] = tasksFetched(fetched)]
    /\ UNCHANGED <<isRunning, workflow, engineVars, handlerVars, strategyVars, historyVars, peripheryVars>>

\* pollTasksAndSubmit: executeHandler returned a result with skip = true
\* (the engine's only result), and the loop goes to the next task.
HandlerReturns(k) ==
    /\ calls[k].pc = "handler"
    /\ calls' = [calls EXCEPT ![k] = nextTask(@.tasks, @.i + 1)]
    /\ UNCHANGED <<isRunning, workflow, engineVars, handlerVars, strategyVars, historyVars, peripheryVars>>

\* pollForever: the sleep between two rounds is over.
InnerWake(k) ==
    /\ calls[k].pc = "innerSleep"
    /\ calls' = [calls EXCEPT ![k] = pollForeverTest(isRunning)]
    /\ UNCHANGED <<isRunning, workflow, engineVars, handlerVars, strategyVars, historyVars, peripheryVars>>

\* poll: the sleep after pollFn is over.
OuterWake(k) ==
    /\ calls[k].pc = "outerSleep"
    /\ calls' = [calls EXCEPT ![k] = At("getState")]
    /\ UNCHANGED <<isRunning, workflow, engineVars, handlerVars, strategyVars, historyVars, peripheryVars>>

\* The workflow ends on the console's side.
WorkflowEnds(status) ==
    /\ workflow = "RUNNING"
    /\ workflow' = status
    /\ UNCHANGED <<isRunning, calls, engineVars, handlerVars, strategyVars, historyVars, peripheryVars>>

NextAgent ==
    \/ \E k \in 1..MaxStarts : Start(k)
    \/ Stop
    \/ \E k \in 1..MaxStarts, fetched \in BOOLEAN : StateFetched(k, fetched)
    \/ \E k \in 1..MaxStarts, l \in TaskLists : TasksFetched(k, Some(l))
    \/ \E k \in 1..MaxStarts : TasksFetched(k, Undefined)
    \/ \E k \in 1..MaxStarts : HandlerReturns(k)
    \/ \E k \in 1..MaxStarts : InnerWake(k)
    \/ \E k \in 1..MaxStarts : OuterWake(k)
    \/ \E status \in {"COMPLETED", "FAILED"} : WorkflowEnds(status)

SpecAgent == Init /\ [][NextAgent]_vars

\* What a start() call does once the call or the timer it waits for completes.
AgentStep(k) ==
    \/ \E fetched \in BOOLEAN : StateFetched(k, fetched)
    \/ \E l \in TaskLists : TasksFetched(k, Some(l))
    \/ TasksFetched(k, Undefined)
    \/ HandlerReturns(k)
    \/ InnerWake(k)
    \/ OuterWake(k)

\* External calls and timers complete: no start() call waits for ever, and
\* fetchWorkflowState does not fail for ever.
SpecAgentFair ==
    /\ SpecAgent
    /\ \A k \in 1..MaxStarts : WF_vars(AgentStep(k)) /\ SF_vars(StateFetched(k, TRUE))

----------------------------------------------------------------------------
(* Cycles that follow one another.  The history variable executions keeps,
   for every scenario result with executed = true, the owner, the scenario,
   the time and the number of the cycle. *)

\* The executions that the results from position k on stand for, all
\* recorded at time t in cycle number n.
ExecutionsOf(c, k, t, n) ==
    { [owner |-> c.owner, scenarioId |-> c.results[m].scenarioId, at |-> t, cycle |-> n] :
        m \in { m \in k..Len(c.results) : c.results[m].executed } }

\* executeAutomationTasks up to its first wait for the agent; one cycle
\* more than Spec runs, so that a scenario can come up a second time.
StartCycleAgain(userAddress) ==
    /\ pc = "idle"
    /\ cycles < MaxCycles + 1
    /\ cycles' = cycles + 1
    /\ IF ~IsDefined(automationContexts[userAddress])
       THEN /\ cycle' = [IdleCycle EXCEPT !.owner = userAddress, !.finished = TRUE]
            /\ pc' = "done"
            /\ ret' = Some(NoContextResult)
            /\ UNCHANGED <<automationContexts, executions>>
       ELSE LET c == RunLoop(NewCycle(userAddress, Val(automationContexts[userAddress]),
                                      switchedOff[userAddress]), 1, now)
            IN  /\ Settle(c)
                /\ executions' = executions \cup ExecutionsOf(c, 1, now, cycles')
    /\ UNCHANGED <<switchedOff, now, response, ops>>
    /\ UNCHANGED <<handlerVars, agentVars, strategyVars, peripheryVars>>

\* The agent answers the waiting scenario and the loop goes on.
AgentAnswersAgain(outcome1, outcome2) ==
    /\ pc = "executing"
    /\ LET c == ResumeLoop(cycle, outcome1, outcome2, now)
       IN  /\ Settle(c)
           /\ executions' = executions \cup ExecutionsOf(c, Len(cycle.results) + 1, now, cycles)
    /\ UNCHANGED <<switchedOff, now, response, ops, cycles>>
    /\ UNCHANGED <<handlerVars, agentVars, strategyVars, peripheryVars>>

NextRepeat ==
    \/ \E o \in Owners, p \in PreferenceSets : RegisterAutomation(o, p)
    \/ \E o \in Owners : StartCycleAgain(o)
    \/ \E o1 \in InvokeOutcomes, o2 \in InvokeOutcomes : AgentAnswersAgain(o1, o2)
    \/ Return
    \/ Tick

SpecRepeat == Init /\ [][NextRepeat]_vars

----------------------------------------------------------------------------
(* Vocabulary of the properties *)

Range(q) == { q[k] : k \in 1..Len(q) }

IsSortedByPriority(scenarios) ==
    \A a \in 1..Len(scenarios), b \in 1..Len(scenarios) :
        a < b => scenarios[a].priority >= scenarios[b].priority

Returned == pc = "done" /\ IsDefined(ret)

\* The k-th result is that of a scenario that executed at high priority.
PreemptingResult(k) ==
    /\ k \in 1..Len(cycle.results)
    /\ cycle.results[k].executed
    /\ cycle.scenarios[cycle.evaluated[k]].priority > HighPriority

EnabledPositions == { j \in 1..Len(cycle.scenarios) : cycle.scenarios[j].enabled }

----------------------------------------------------------------------------
(* C1: after any sequence of registrations, scenario updates and custom
   additions, the scenario list of every stored context is sorted by
   priority, descending. *)
C1_ScenariosSortedDescending ==
    \A o \in Owners :
        IsDefined(automationContexts[o]) =>
            IsSortedByPriority(Val(automationContexts[o]).scenarios)

(* C2: a returned result with skip = false always carries a transaction list
   that is present and not empty. *)
C2_NoSkipFalseWithoutTransactions ==
    Returned =>
        (~Val(ret).skip =>
            IsDefined(Val(ret).transactions) /\ Len(Val(Val(ret).transactions)) > 0)

\* A cycle returned after a scenario executed successfully and contributed an
\* empty transaction list.
C2_Witness ==
    /\ Returned
    /\ Val(ret).skip
    /\ \E k \in 1..Len(cycle.results) : Aggregated(cycle.results[k])

(* C3: once a scenario of priority above 8 has executed, nothing more is
   evaluated or executed in the cycle; a scenario of priority 8 or less, or
   one that did not execute, suppresses nothing: when the call has ended,
   the enabled scenarios evaluated are exactly those up to the first one
   that executed at high priority. *)
C3_PriorityPreemption ==
    /\ \A k \in 1..Len(cycle.results) :
          PreemptingResult(k) =>
              /\ Len(cycle.evaluated) = k
              /\ cycle.dispatched # << >>
              /\ cycle.dispatched[Len(cycle.dispatched)] = cycle.evaluated[k]
    /\ pc = "done" =>
          \A j \in EnabledPositions :
              j \in Range(cycle.evaluated)
                  <=> ~\E k \in 1..Len(cycle.results) :
                          PreemptingResult(k) /\ cycle.evaluated[k] < j

\* A cycle ended by a high-priority execution with an enabled scenario of
\* lower priority behind it.
C3_Witness ==
    /\ pc = "done"
    /\ \E k \in 1..Len(cycle.results) :
          /\ PreemptingResult(k)
          /\ \E j \in EnabledPositions :
                /\ j > cycle.evaluated[k]
                /\ cycle.scenarios[j].priority < cycle.scenarios[cycle.evaluated[k]].priority

(* C4 as claimed: when a high-priority scenario preempts the cycle, every
   enabled scenario of lower priority still has an entry in the results,
   with executed = false. *)
C4_PreemptedScenariosReported ==
    pc = "done" =>
        \A k \in 1..Len(cycle.results) :
            PreemptingResult(k) =>
                \A j \in EnabledPositions :
                    cycle.scenarios[j].priority < cycle.scenarios[cycle.evaluated[k]].priority
                        => \E m \in 1..Len(cycle.results) :
                              cycle.evaluated[m] = j /\ ~cycle.results[m].executed

(* C4 as amended: when a high-priority scenario preempts the cycle, its
   result is the last entry of the results; the scenarios behind it in the
   list have no entry at all, so none of them is reported as executed. *)
C4_PreemptedScenariosAbsent ==
    pc = "done" =>
        \A k \in 1..Len(cycle.results) :
            PreemptingResult(k) =>
                /\ k = Len(cycle.results)
                /\ \A j \in 1..Len(cycle.scenarios) :
                      j > cycle.evaluated[k] =>
                          ~\E m \in 1..Len(cycle.results) : cycle.evaluated[m] = j

\* The example of the claim: a priority-10 scenario executed and an enabled,
\* triggered priority-5 scenario follows it.
C4_Witness ==
    /\ pc = "done"
    /\ \E k \in 1..Len(cycle.results) :
          /\ PreemptingResult(k)
          /\ cycle.scenarios[cycle.evaluated[k]].priority = 10
          /\ \E j \in EnabledPositions :
                /\ j > cycle.evaluated[k]
                /\ cycle.scenarios[j].priority = 5
                /\ cycle.scenarios[j].triggers.ok
                /\ checkScenarioTriggers(cycle.scenarios[j], now)

(* C5: the returned result has skip = true exactly when no scenario of the
   cycle produced a transaction, whether or not its result is marked
   successful. *)
C5_SkipIffNoTransactionProduced ==
    (Returned /\ IsDefined(Val(ret).metadata)) =>
        (Val(ret).skip <=>
            \A k \in 1..Len(cycle.results) :
                IsDefined(cycle.results[k].transactions) =>
                    Val(cycle.results[k].transactions) = << >>)

\* A cycle returned in which a scenario failed and its result carries a
\* transaction list.
C5_Witness ==
    /\ Returned
    /\ \E k \in 1..Len(cycle.results) :
          /\ ~cycle.results[k].success
          /\ IsDefined(cycle.results[k].transactions)

\* Every scenario a context or the running call holds.
HeldScenarios ==
    UNION { Range(Val(automationContexts[o]).scenarios) :
                o \in { u \in Owners : IsDefined(automationContexts[u]) } }
        \cup Range(cycle.scenarios)

KnownTriggerTypes ==
    {"time_based", "price_based", "apy_based", "health_factor",
     "profit_threshold", "loss_threshold"}

HasTimeTrigger(scenario) ==
    \E k \in 1..Len(scenario.triggers.list) : scenario.triggers.list[k].type = "time_based"

(* C6: checkScenarioTriggers is true exactly when every trigger of the
   scenario evaluates to true: it is true of an empty trigger list, false
   when a trigger has an unknown type or fails, and a scenario the loop
   evaluated is reported "Triggers not met" exactly when one of its triggers
   is false. *)
C6_TriggersAreConjunction ==
    /\ \A s \in HeldScenarios :
          s.triggers.ok =>
              /\ checkScenarioTriggers(s, now)
                    <=> \A k \in 1..Len(s.triggers.list) :
                            evaluateTrigger(s.triggers.list[k], s, now)
              /\ s.triggers.list = << >> => checkScenarioTriggers(s, now)
              /\ (\E k \in 1..Len(s.triggers.list) :
                      \/ s.triggers.list[k].type \notin KnownTriggerTypes
                      \/ s.triggers.list[k].type = "time_based" /\ ~s.hasParameters)
                    => ~checkScenarioTriggers(s, now)
    /\ \A m \in 1..Len(cycle.results) :
          LET s == cycle.scenarios[cycle.evaluated[m]]
          IN  (s.triggers.ok /\ ~HasTimeTrigger(s)) =>
                  (cycle.results[m] = TriggersNotMet(s)
                      <=> \E k \in 1..Len(s.triggers.list) :
                              ~evaluateTrigger(s.triggers.list[k], s, now))

\* The loop reported a scenario not triggered whose first trigger is met and
\* whose second is not, and went on to find a later scenario triggered.
C6_Witness ==
    \E m \in 1..Len(cycle.results) :
        LET s == cycle.scenarios[cycle.evaluated[m]]
        IN  /\ s.triggers.ok
            /\ Len(s.triggers.list) = 2
            /\ evaluateTrigger(s.triggers.list[1], s, now)
            /\ ~evaluateTrigger(s.triggers.list[2], s, now)
            /\ cycle.results[m] = TriggersNotMet(s)
            /\ Len(cycle.dispatched) > 0
            /\ cycle.dispatched[Len(cycle.dispatched)] > cycle.evaluated[m]

(* C7: in every cycle the scenarios are evaluated in descending priority
   order, whatever registrations and updates came before. *)
C7_ProcessedInPriorityOrder ==
    \A a \in 1..Len(cycle.evaluated), b \in 1..Len(cycle.evaluated) :
        a < b => cycle.scenarios[cycle.evaluated[a]].priority
                    >= cycle.scenarios[cycle.evaluated[b]].priority

(* C8: a scenario its owner switched off, by enabled = false or by a
   registration preference such as enableRiskManagement = false, is never
   evaluated and never executed in a cycle. *)
C8_SwitchedOffNeverRuns ==
    \A j \in Range(cycle.evaluated) \cup Range(cycle.dispatched) :
        /\ cycle.scenarios[j].enabled
        /\ cycle.scenarios[j].id \notin cycle.switchedOff

(* C9: a scenario update for an owner without a context changes no context,
   creates none and answers without an error. *)
C9_UpdateWithoutContextIsNoOp ==
    [][\A o \in Owners, l \in ScenarioLists :
          (PutScenarios(o, l) /\ ~IsDefined(automationContexts[o]))
              => /\ automationContexts' = automationContexts
                 /\ response' = 200]_vars

\* The first REST call was answered 200 and no owner has a context: it was an
\* update for an owner without one.
C9_Witness ==
    /\ ops = 1
    /\ response = 200
    /\ \A o \in Owners : ~IsDefined(automationContexts[o])

(* C10: a failure in evaluating or executing one scenario is reported as a
   result with success = false and executed = false, the call does not
   reject, and the loop goes on: when the call has ended, the enabled
   scenario that follows a failed one has been evaluated too. *)
C10_FailureAbortsOnlyItsScenario ==
    /\ ~cycle.threw
    /\ pc = "done" => IsDefined(ret)
    /\ \A m \in 1..Len(cycle.results) :
          ~cycle.results[m].success =>
              /\ ~cycle.results[m].executed
              /\ pc = "done" =>
                    \A j \in EnabledPositions :
                        (/\ j > cycle.evaluated[m]
                         /\ \A i \in (cycle.evaluated[m] + 1)..(j - 1) : i \notin EnabledPositions)
                            => j \in Range(cycle.evaluated)

\* A call returned after the loop caught an exception and reported it, an
\* executor caught its own and reported it, and a later scenario that the
\* agent failed was reported in turn.
C10_Witness ==
    /\ Returned
    /\ \E m, k, n \in 1..Len(cycle.results) :
          /\ m < k /\ k < n
          /\ cycle.results[m] = LoopError(cycle.scenarios[cycle.evaluated[m]])
          /\ cycle.results[k] = ExecutorError(cycle.scenarios[cycle.evaluated[k]])
          /\ cycle.results[n].message = "failed"

----------------------------------------------------------------------------
(* C11: while the emergency stop is set (autoRebalanceEnabled is false), a
   cycle that starts skips everything, on the engine's path and on the
   legacy agent's: the step that starts it evaluates no scenario, calls no
   strategy, and a result it returns has skip = true and no transactions. *)
C11_EmergencyStopSkipsEveryCycle ==
    [][~autoRebalanceEnabled =>
          /\ (pc = "idle" /\ pc' # "idle") =>
                /\ cycle'.evaluated = << >>
                /\ cycle'.dispatched = << >>
                /\ IsDefined(ret') => Val(ret').skip /\ ~IsDefined(Val(ret').transactions)
          /\ (legacy.pc = "idle" /\ legacy'.pc # "idle") =>
                /\ ~legacy'.strategyCalled
                /\ IsDefined(legacy'.ret) =>
                      Val(legacy'.ret).skip /\ ~IsDefined(Val(legacy'.ret).transactions)]_vars

(* C13: a cycle request whose sub-account is not an address is turned down
   with skip = true before any trigger is evaluated, scenario executed or
   strategy called, whichever handler took it. *)
C13_MalformedOwnerRejected ==
    /\ (pc # "idle" /\ ~isAddress(cycle.owner)) =>
          /\ cycle.evaluated = << >>
          /\ cycle.dispatched = << >>
          /\ pc = "done"
          /\ IsDefined(ret) /\ Val(ret).skip
    /\ (legacy.pc # "idle" /\ ~isAddress(Val(legacy.taskParams).subAccountAddress)) =>
          /\ ~legacy.strategyCalled
          /\ legacy.pc = "done"
          /\ Val(legacy.ret).skip

\* The call that has ended found no context for its owner (no step removes
\* a context, and no REST call runs before the result is taken).
EndedWithoutContext == pc = "done" /\ ~IsDefined(automationContexts[cycle.owner])

(* C12 as stated: a call for an owner without a registered context raises to
   its caller instead of returning a result, and a call that found a context
   never raises. *)
C12_MissingContextRaises ==
    pc = "done" =>
        IF EndedWithoutContext THEN cycle.threw /\ ~IsDefined(ret)
        ELSE ~cycle.threw /\ IsDefined(ret)

(* C12 amended: no call raises.  A call for an owner without a registered
   context returns a result with skip = true, gas estimate 0 and no
   transactions, having evaluated nothing; a call that found a context
   returns its summary whatever its scenarios did. *)
C12_MissingContextSkips ==
    pc = "done" =>
        /\ ~cycle.threw
        /\ IsDefined(ret)
        /\ EndedWithoutContext =>
              /\ Val(ret).skip
              /\ ~IsDefined(Val(ret).transactions)
              /\ Val(ret).gasEstimate = 0
              /\ ~IsDefined(Val(ret).metadata)
              /\ cycle.evaluated = << >>
        /\ ~EndedWithoutContext => IsDefined(Val(ret).metadata)

\* A call for an owner without a context has returned while the other owner
\* has one.
C12_Witness ==
    /\ EndedWithoutContext
    /\ IsDefined(ret)
    /\ \E o \in Owners : IsDefined(automationContexts[o])

(* C14: at no time are two executeAutomationTasks cycles of the same owner in
   flight, whatever start() and stop() calls were made and whatever the
   poller returned. *)
C14_OneCyclePerOwner ==
    \A j, k \in 1..MaxStarts : j # k => InFlight(calls[j]) \cap InFlight(calls[k]) = {}

(* C15: the metric updates of a cycle are not lost to a registration or a
   scenario update of the same owner that runs while the cycle waits: when
   the cycle has ended, the owner's stored context counts every scenario
   execution of the cycle in totalExecutions, totalProfit and totalGasCost. *)
C15_MetricsSurviveInterleaving ==
    (pc = "done" /\ IsDefined(automationContexts[cycle.owner]) /\ cycle.dispatched # << >>) =>
        LET stored == Val(automationContexts[cycle.owner]).performanceMetrics
        IN  /\ stored.totalExecutions >= Len(cycle.dispatched)
            /\ stored.totalExecutions = cycle.performanceMetrics.totalExecutions
            /\ stored.totalProfit = cycle.performanceMetrics.totalProfit
            /\ stored.totalGasCost = cycle.performanceMetrics.totalGasCost

----------------------------------------------------------------------------
(* The calculations of YieldOptimizationStrategy.  Amounts are whole numbers,
   health factors are in tenths (32 is 3.2), APYs are in hundredths of a
   percent (950 is 9.50%, the two decimals of netAPY.toFixed(2)), and a
   quotient is a fraction in lowest terms. *)

Whole(n) == Fraction(n, 1)

RECURSIVE SumOf(_)
SumOf(numbers) ==
    IF numbers = << >> THEN 0 ELSE Head(numbers) + SumOf(Tail(numbers))

\* Math.min(100, Math.max(0, x))
ClampToPercent(x) ==
    IF x.num < 0 THEN Whole(0)
    ELSE IF x.num > 100 * x.den THEN Whole(100)
    ELSE x

Position(symbol, suppliedAmount, healthFactor, utilizationRate, liquidity, totalSupply) ==
    [ symbol |-> symbol, suppliedAmount |-> suppliedAmount, healthFactor |-> healthFactor,
      utilizationRate |-> utilizationRate, liquidity |-> liquidity, totalSupply |-> totalSupply ]

calculateDiversificationScoreByFormula(positions) ==
    IF Len(positions) = 0 THEN Whole(0)
    ELSE LET totalValue == SumOf([k \in 1..Len(positions) |-> positions[k].suppliedAmount])
         IN  IF totalValue = 0 THEN Whole(0)
             ELSE ClampToPercent(Fraction(100 * (totalValue * totalValue
                        - SumOf([k \in 1..Len(positions) |->
                                   positions[k].suppliedAmount * positions[k].suppliedAmount])),
                      totalValue * totalValue))

calculateDiversificationScore(positions) ==
    IF Len(positions) = 0 THEN Whole(0)
    ELSE IF Len(positions) = 1 THEN Whole(20)
    ELSE LET totalValue == SumOf([k \in 1..Len(positions) |-> positions[k].suppliedAmount])
         IN  IF totalValue = 0 THEN Whole(0)
             ELSE LET \* the sum of (suppliedAmount / totalValue)^2
                      herfindahlIndex ==
                          Fraction(SumOf([k \in 1..Len(positions) |->
                                         positions[k].suppliedAmount * positions[k].suppliedAmount]),
                                totalValue * totalValue)
                      diversificationScore ==
                          Fraction(100 * (herfindahlIndex.den - herfindahlIndex.num), herfindahlIndex.den)
                  IN  ClampToPercent(diversificationScore)

positionRiskScore(position) ==
    LET utilization == IF position.utilizationRate > 90 THEN 40
                       ELSE IF position.utilizationRate > 80 THEN 25
                       ELSE IF position.utilizationRate > 70 THEN 10
                       ELSE 0
        health == IF position.healthFactor < 12 THEN 40
                  ELSE IF position.healthFactor < 15 THEN 25
                  ELSE IF position.healthFactor < 20 THEN 10
                  ELSE 0
        market == IF position.symbol # "USDC" /\ position.symbol # "USDT" THEN 20 ELSE 0
        riskScore == utilization + health + market
    IN  IF riskScore > 100 THEN 100 ELSE riskScore

calculateRiskScore(positions) ==
    IF Len(positions) = 0 THEN Whole(0)
    ELSE Fraction(SumOf([k \in 1..Len(positions) |-> positionRiskScore(positions[k])]),
               Len(positions))

\* liquidity.dividedBy(totalSupply).gt(n / d); a division by zero gives
\* Infinity for a positive liquidity and NaN, greater than nothing, for 0/0.
liquidityRatioGt(position, n, d) ==
    IF position.totalSupply = 0
    THEN position.liquidity > 0
    ELSE position.liquidity * d > position.totalSupply * n

positionLiquidityScore(position) ==
    IF liquidityRatioGt(position, 1, 2) THEN 100
    ELSE IF liquidityRatioGt(position, 3, 10) THEN 80
    ELSE IF liquidityRatioGt(position, 1, 10) THEN 60
    ELSE IF liquidityRatioGt(position, 1, 20) THEN 40
    ELSE 20

calculateLiquidityScore(positions) ==
    IF Len(positions) = 0 THEN Whole(100)
    ELSE Fraction(SumOf([k \in 1..Len(positions) |-> positionLiquidityScore(positions[k])]),
               Len(positions))

calculatePortfolioMetrics(userAccount) ==
    [ diversificationScore |-> calculateDiversificationScore(userAccount.positions),
      riskScore |-> calculateRiskScore(userAccount.positions),
      liquidityScore |-> calculateLiquidityScore(userAccount.positions) ]

\* x.toFixed(6) of the quotient amount / d, an amount being a whole number
\* of tenths of a millionth: the millionths, rounded half up.
toFixed6(amount, d) == [millionths |-> (2 * amount + 10 * d) \div (20 * d)]

\* The string '0', which has no decimals.
Zero == [digits |-> "0"]

calculateOptimalWithdrawAmountAnyMinimum(position, riskLimits) ==
    IF position.healthFactor > 30 THEN toFixed6(position.suppliedAmount, 2)
    ELSE IF position.healthFactor > 20 THEN toFixed6(position.suppliedAmount, 4)
    ELSE Zero

calculateOptimalWithdrawAmount(position, riskLimits) ==
    IF position.healthFactor < riskLimits.minHealthFactor THEN Zero
    ELSE IF position.healthFactor > 30 THEN toFixed6(position.suppliedAmount, 2)
    ELSE IF position.healthFactor > 20 THEN toFixed6(position.suppliedAmount, 4)
    ELSE Zero

\* opportunitiesResponse.data[0].apy with no opportunity in the list reads a
\* property of undefined.
TypeError == "TypeError"

shouldRebalance(userAccount, portfolioMetrics, riskMetrics, targetAPY, opportunitiesResponse, config, riskLimits) ==
    IF userAccount.healthFactor < riskLimits.minHealthFactor THEN TRUE
    ELSE IF riskMetrics.overallRisk = "high" THEN TRUE
    ELSE IF /\ IsDefined(targetAPY)
            \* currentAPY < target - target * (rebalanceThreshold / 100)
            /\ portfolioMetrics.netAPY * 100 * config.rebalanceThreshold.den
                 < Val(targetAPY) * (100 * config.rebalanceThreshold.den - config.rebalanceThreshold.num)
         THEN TRUE
    ELSE IF opportunitiesResponse.success /\ IsDefined(opportunitiesResponse.data)
         THEN IF Val(opportunitiesResponse.data) = << >> THEN TypeError
              \* bestAPY - currentAPY > minYieldThreshold / 100, APYs being in
              \* hundredths of a percent
              ELSE Val(opportunitiesResponse.data)[1] - portfolioMetrics.netAPY
                     > config.minYieldThreshold
    ELSE FALSE

\* The configuration and the risk limits SeiDeFiAgent builds its strategy
\* with; MIN_YIELD_THRESHOLD is 500 when the environment does not set it and
\* 5 with the documented setting 5.0.
AgentConfigs ==
    { [ minYieldThreshold |-> m, rebalanceThreshold |-> Fraction(1, 10) ] : m \in {5, 500} }

RiskLimits == { [ minHealthFactor |-> h ] : h \in {15, 25, 35} }

PositionLists ==
    { << >>,
      << Position("USDC", 600, 32, 60, 6, 10) >>,
      << Position("SEI", 5, 11, 95, 0, 0) >>,
      << Position("USDC", 600, 32, 85, 4, 10), Position("SEI", 400, 20, 75, 2, 10) >>,
      << Position("USDC", 0, 21, 91, 1, 0), Position("USDT", 0, 30, 50, 1, 100) >>,
      << Position("SEI", 1, 14, 95, 6, 100), Position("USDT", 999, 19, 10, 5, 100) >>,
      << Position("USDC", 333, 31, 71, 3, 10), Position("SEI", 333, 36, 81, 51, 100),
         Position("ATOM", 333, 25, 0, 1, 10) >> }

\* What getYieldOpportunities answers: a failure, or the opportunities'
\* APYs, the highest first.
OpportunityResponses ==
    { [ success |-> FALSE, data |-> Undefined ],
      [ success |-> TRUE, data |-> Some(<< >>) ],
      [ success |-> TRUE, data |-> Some(<< 950 >>) ],
      [ success |-> TRUE, data |-> Some(<< 1200, 900 >>) ] }

StrategyInputs ==
    { [ positions |-> p, healthFactor |-> h, overallRisk |-> r, netAPY |-> n, targetAPY |-> t,
        opportunities |-> o, config |-> c, riskLimits |-> l ] :
        p \in PositionLists, h \in {14, 32}, r \in {"low", "high"}, n \in {800, 950},
        t \in {Undefined, Some(1000)}, o \in OpportunityResponses,
        c \in AgentConfigs, l \in RiskLimits }

InitStrategy ==
    /\ EngineInit
    /\ deployed = "enhanced"
    /\ autoRebalanceEnabled = TRUE
    /\ legacy = LegacyIdle
    /\ AgentInit
    /\ NoHistory
    /\ PeripheryIdle
    /\ strategyInput \in { Some(i) : i \in StrategyInputs }
    /\ strategyOutput = Undefined

\* The result of one calculation on the input.
Returns(call, result) == Some([ call |-> call, result |-> result ])

CalculatePortfolioMetrics ==
    /\ strategyOutput = Undefined
    /\ strategyOutput' = Returns([ name |-> "calculatePortfolioMetrics" ],
                                 calculatePortfolioMetrics(Val(strategyInput)))
    /\ UNCHANGED <<strategyInput, engineVars, handlerVars, agentVars, historyVars, peripheryVars>>

CalculateOptimalWithdrawAmount(k) ==
    /\ strategyOutput = Undefined
    /\ k \in 1..Len(Val(strategyInput).positions)
    /\ strategyOutput' = Returns([ name |-> "calculateOptimalWithdrawAmount", position |-> k ],
                                 calculateOptimalWithdrawAmount(Val(strategyInput).positions[k],
                                                                Val(strategyInput).riskLimits))
    /\ UNCHANGED <<strategyInput, engineVars, handlerVars, agentVars, historyVars, peripheryVars>>

ShouldRebalance ==
    /\ strategyOutput = Undefined
    /\ LET i == Val(strategyInput)
       IN  strategyOutput' = Returns([ name |-> "shouldRebalance" ],
                                     shouldRebalance(i, i, i, i.targetAPY, i.opportunities,
                                                     i.config, i.riskLimits))
    /\ UNCHANGED <<strategyInput, engineVars, handlerVars, agentVars, historyVars, peripheryVars>>

NextStrategy ==
    \/ CalculatePortfolioMetrics
    \/ \E k \in 1..Len(Val(strategyInput).positions) : CalculateOptimalWithdrawAmount(k)
    \/ ShouldRebalance

SpecStrategy == InitStrategy /\ [][NextStrategy]_vars

----------------------------------------------------------------------------
(* One trigger evaluation against a live signal.  The signal is what the
   market and position provider would report for the trigger's type, in the
   unit of trigger.value (tenths). *)

Comparisons == {"greater_than", "less_than", "equals"}

SignalTypes == {"price_based", "apy_based", "health_factor", "profit_threshold", "loss_threshold"}

\* An AutomationTrigger as the engine declares it, comparison included.
TriggerWith(type, value, comparison) ==
    [type |-> type, value |-> value, comparison |-> comparison]

EvaluationInputs ==
    { [trigger |-> TriggerWith(type, value, comparison), signal |-> signal, result |-> Undefined] :
        type \in SignalTypes \cup {"time_based", "volume_based"}, value \in {15, 20},
        comparison \in Comparisons, signal \in {10, 15, 20} }

InitTriggers ==
    /\ EngineInit
    /\ deployed = "enhanced"
    /\ autoRebalanceEnabled = TRUE
    /\ legacy = LegacyIdle
    /\ AgentInit
    /\ StrategyIdle
    /\ NoHistory
    /\ evaluation \in { Some(i) : i \in EvaluationInputs }
    /\ NoRound
    /\ NoServer
    /\ NoHook

\* evaluateTrigger on a scenario of a registered owner
EvaluateTrigger(scenario) ==
    /\ Val(evaluation).result = Undefined
    /\ evaluation' = Some([Val(evaluation) EXCEPT
                             !.result = Some(evaluateTrigger(Val(evaluation).trigger, scenario, now))])
    /\ UNCHANGED <<coreVars, pollVars, socketVars, hookVars>>

NextTriggers == \E scenario \in {c_yield, c_bare} : EvaluateTrigger(scenario)

SpecTriggers == InitTriggers /\ [][NextTriggers]_vars

----------------------------------------------------------------------------
(* generateRebalanceActions.  Dollar amounts of the deposit loop are
   fractions of a dollar; the amount and the expectedGain of an action are
   the strings toFixed(6) writes, in millionths. *)

Less(a, b) == a.num * b.den < b.num * a.den

Minus(a, b) == Fraction(a.num * b.den - b.num * a.den, a.den * b.den)

\* BigNumber.min
Least(a, b, c) ==
    LET ab == IF Less(b, a) THEN b ELSE a
    IN  IF Less(c, ab) THEN c ELSE ab

\* x.toFixed(6) of a dollar amount
toFixed6Dollars(x) ==
    [millionths |-> (x.num \div x.den) * 1000000
                      + (2 * (x.num % x.den) * 1000000 + x.den) \div (2 * x.den)]

\* A position with the fields the action generator reads besides.
Holding(position, borrowedAmount, supplyAPY) ==
    [ symbol |-> position.symbol, suppliedAmount |-> position.suppliedAmount,
      healthFactor |-> position.healthFactor, utilizationRate |-> position.utilizationRate,
      liquidity |-> position.liquidity, totalSupply |-> position.totalSupply,
      borrowedAmount |-> borrowedAmount, supplyAPY |-> supplyAPY ]

Opportunity(market, apy, risk, liquidity, maxDeposit) ==
    [ market |-> market, apy |-> apy, risk |-> risk, liquidity |-> liquidity,
      maxDeposit |-> maxDeposit ]

\* baseYield * riskPenalty * liquidityBonus, times 10000
calculateRiskAdjustedYield(opportunity) ==
    LET riskPenalty == IF opportunity.risk = "high" THEN 70
                       ELSE IF opportunity.risk = "medium" THEN 85 ELSE 100
        liquidityBonus == IF opportunity.liquidity > 1000000 THEN 110 ELSE 100
    IN  opportunity.apy * riskPenalty * liquidityBonus

\* The place of an opportunity in an array sorted with (a, b) => bScore - aScore:
\* behind everything that scores at least as much.
RECURSIVE InsertByYield(_, _)
InsertByYield(sorted, opportunity) ==
    IF sorted = << >> THEN << opportunity >>
    ELSE IF calculateRiskAdjustedYield(Head(sorted)) >= calculateRiskAdjustedYield(opportunity)
         THEN << Head(sorted) >> \o InsertByYield(Tail(sorted), opportunity)
         ELSE << opportunity >> \o sorted

RECURSIVE SortByYield(_)
SortByYield(opportunities) ==
    IF opportunities = << >> THEN << >>
    ELSE InsertByYield(SortByYield(SubSeq(opportunities, 1, Len(opportunities) - 1)),
                       opportunities[Len(opportunities)])

\* opportunities.filter(opp => opp.risk !== 'high' || riskTolerance === 'high')
RECURSIVE Eligible(_, _)
Eligible(opportunities, config) ==
    IF opportunities = << >> THEN << >>
    ELSE IF Head(opportunities).risk # "high" \/ config.riskTolerance = "high"
         THEN << Head(opportunities) >> \o Eligible(Tail(opportunities), config)
         ELSE Eligible(Tail(opportunities), config)

\* principal * (toAPY / 100 - fromAPY / 100), toFixed(6); the principal is in
\* millionths and the APYs in hundredths of a percent.
calculateExpectedGain(amount, fromAPY, toAPY) ==
    LET rate == toAPY - fromAPY
        whole == (amount.millionths \div 10000) * rate
        rest == (amount.millionths % 10000) * rate
    IN  [millionths |-> whole + (2 * rest + 10000) \div 20000]

Action(type, market, amount, expectedGain) ==
    [ type |-> type, market |-> market, amount |-> amount, expectedGain |-> expectedGain ]

\* sortedOpportunities[0]?.apy || '0'
bestOpportunityAPY(sortedOpportunities) ==
    IF sortedOpportunities = << >> THEN 0 ELSE sortedOpportunities[1].apy

RECURSIVE withdrawActions(_, _, _, _)
withdrawActions(positions, sortedOpportunities, config, riskLimits) ==
    IF positions = << >> THEN << >>
    ELSE LET position == Head(positions)
             rest == withdrawActions(Tail(positions), sortedOpportunities, config, riskLimits)
             underperforming ==
                 bestOpportunityAPY(sortedOpportunities) - position.supplyAPY > config.minYieldThreshold
             withdrawAmount == calculateOptimalWithdrawAmount(position, riskLimits)
         IN  IF underperforming /\ withdrawAmount # Zero /\ withdrawAmount.millionths > 0
             THEN << Action("withdraw", position.symbol, withdrawAmount,
                            Some(calculateExpectedGain(withdrawAmount, position.supplyAPY,
                                                       bestOpportunityAPY(sortedOpportunities))))
                  >> \o rest
             ELSE rest

\* Minimum $100 deposit
MinimumDeposit == 100

\* The deposit loop over the opportunities it was given
RECURSIVE depositActions(_, _)
depositActions(opportunities, remainingCapacity) ==
    IF opportunities = << >> \/ remainingCapacity.num <= 0 THEN << >>
    ELSE LET opportunity == Head(opportunities)
             maxDeposit ==
                 Least(remainingCapacity,
                       IF IsDefined(opportunity.maxDeposit)
                       THEN Whole(Val(opportunity.maxDeposit)) ELSE remainingCapacity,
                       Fraction(opportunity.liquidity, 20))
         IN  IF Less(Whole(MinimumDeposit), maxDeposit)
             THEN << Action("deposit", opportunity.market, toFixed6Dollars(maxDeposit),
                            Some(calculateExpectedGain(toFixed6Dollars(maxDeposit), 0, opportunity.apy)))
                  >> \o depositActions(Tail(opportunities), Minus(remainingCapacity, maxDeposit))
             ELSE depositActions(Tail(opportunities), remainingCapacity)

\* No slice: every eligible opportunity.
AllOpportunities(sortedOpportunities) == sortedOpportunities

\* sortedOpportunities.slice(0, 3)
TopOpportunities(sortedOpportunities) ==
    SubSeq(sortedOpportunities, 1, IF Len(sortedOpportunities) < 3 THEN Len(sortedOpportunities) ELSE 3)

\* Repay 30% of the borrowed amount, toFixed(6); the action has no expectedGain.
RECURSIVE repayActions(_)
repayActions(positions) ==
    IF positions = << >> THEN << >>
    ELSE LET position == Head(positions)
         IN  IF position.borrowedAmount > 0 /\ position.healthFactor < 15
             THEN << Action("repay", position.symbol,
                            toFixed6(3 * position.borrowedAmount, 10), Undefined) >>
                  \o repayActions(Tail(positions))
             ELSE repayActions(Tail(positions))

\* assessRisk: liquidationRisk is high below a health factor of 1.5.
liquidationRisk(userAccount) ==
    IF userAccount.healthFactor < 15 THEN "high"
    ELSE IF userAccount.healthFactor < 20 THEN "medium" ELSE "low"

generateRiskManagementActions(userAccount) ==
    IF liquidationRisk(userAccount) = "high" THEN repayActions(userAccount.positions) ELSE << >>

\* actions.filter(action => new BigNumber(action.expectedGain || '0').gt(minYieldThreshold / 100))
RECURSIVE AboveThreshold(_, _)
AboveThreshold(actions, config) ==
    IF actions = << >> THEN << >>
    ELSE LET action == Head(actions)
             expectedGain == IF IsDefined(action.expectedGain)
                             THEN Val(action.expectedGain).millionths ELSE 0
         IN  IF expectedGain > config.minYieldThreshold * 10000
             THEN << action >> \o AboveThreshold(Tail(actions), config)
             ELSE AboveThreshold(Tail(actions), config)

generateRebalanceActions(userAccount, opportunities, riskMetrics, config, riskLimits) ==
    LET sortedOpportunities == SortByYield(Eligible(opportunities, config))
        actions ==
            withdrawActions(userAccount.positions, sortedOpportunities, config, riskLimits)
              \o depositActions(TopOpportunities(sortedOpportunities), Whole(config.maxPositionSize))
              \o (IF riskMetrics.overallRisk = "high"
                  THEN generateRiskManagementActions(userAccount) ELSE << >>)
    IN  AboveThreshold(actions, config)

HoldingLists ==
    { << >>,
      << Holding(Position("USDC", 600, 32, 60, 6, 10), 0, 800),
         Holding(Position("SEI", 400, 11, 95, 2, 10), 205, 600) >>,
      << Holding(Position("SEI", 5, 14, 95, 0, 0), 50, 1150),
         Holding(Position("USDT", 90000, 31, 10, 5, 10), 0, 100) >> }

\* What getYieldOpportunities hands over, the highest APY first.
OpportunityLists ==
    { << >>,
      << Opportunity("a", 1200, "medium", 3000, Some(300)),
         Opportunity("b", 1000, "low", 2000000, Undefined),
         Opportunity("c", 900, "low", 2000, Some(200)) >>,
      << Opportunity("a", 1200, "low", 3000, Some(300)),
         Opportunity("b", 1100, "high", 4000, Some(400)),
         Opportunity("c", 1000, "medium", 2400, Some(240)),
         Opportunity("d", 900, "low", 2010, Some(201)),
         Opportunity("e", 800, "low", 6000, Undefined) >> }

RebalanceConfigs ==
    { [ minYieldThreshold |-> m, maxPositionSize |-> s, riskTolerance |-> r ] :
        m \in {5, 500}, s \in {250, 360, 1000}, r \in {"medium", "high"} }

RebalanceInputs ==
    { [ positions |-> p, healthFactor |-> h, overallRisk |-> r, opportunities |-> o,
        config |-> c, riskLimits |-> [ minHealthFactor |-> 15 ] ] :
        p \in HoldingLists, h \in {14, 32}, r \in {"low", "high"}, o \in OpportunityLists,
        c \in RebalanceConfigs }

InitRebalance ==
    /\ EngineInit
    /\ deployed = "enhanced"
    /\ autoRebalanceEnabled = TRUE
    /\ legacy = LegacyIdle
    /\ AgentInit
    /\ NoHistory
    /\ PeripheryIdle
    /\ strategyInput \in { Some(i) : i \in RebalanceInputs }
    /\ strategyOutput = Undefined

GenerateRebalanceActions ==
    /\ strategyOutput = Undefined
    /\ LET i == Val(strategyInput)
       IN  strategyOutput' = Returns([ name |-> "generateRebalanceActions" ],
                                     generateRebalanceActions(i, i.opportunities, i, i.config,
                                                              i.riskLimits))
    /\ UNCHANGED <<strategyInput, engineVars, handlerVars, agentVars, historyVars, peripheryVars>>

NextRebalance == GenerateRebalanceActions

SpecRebalance == InitRebalance /\ [][NextRebalance]_vars

----------------------------------------------------------------------------
(* pollTasksAndSubmit of the three agents *)

PollingAgents == {"enhanced", "corrected", "legacy"}

\* The task parameters the loop works with: the legacy agent builds them
\* itself and stamps them with its own chain id.
taskParamsOf(agent, task) ==
    IF agent = "legacy" THEN [task EXCEPT !.chainID = ChainId] ELSE task

\* The chain test at the head of the loop body; the legacy loop has none.
OfAnyChain(agent, task) == TRUE

OfThisChain(agent, task) == agent = "legacy" \/ task.chainID = ChainId

\* The for loop from task i on, up to its next await: tasks of another
\* chain are passed over, and after the last task the call returns true.
RECURSIVE pollFrom(_, _)
pollFrom(r, i) ==
    IF i > Len(r.tasks)
    THEN [r EXCEPT !.pc = "returned", !.i = 0, !.result = Undefined, !.ret = Some(TRUE)]
    ELSE LET reached == [r EXCEPT !.handled = @ \cup {i}, !.i = i, !.result = Undefined]
         IN  IF OfThisChain(r.agent, r.tasks[i])
             THEN [reached EXCEPT !.pc = "handler"]
             ELSE pollFrom(reached, i + 1)

\* fetchTasks settled: a rejected fetch makes the call return false, no
\* task makes it return true.
pollFetched(r, fetched) ==
    IF ~IsDefined(fetched) THEN [r EXCEPT !.pc = "returned", !.ret = Some(FALSE)]
    ELSE pollFrom([r EXCEPT !.tasks = Val(fetched)], 1)

\* catch (taskError): the error is logged and the loop goes on.
taskFailed(r) == pollFrom([r EXCEPT !.failed = @ \cup {r.i}], r.i + 1)

\* The call of executeTransaction for the task at hand.
submitTask(r) ==
    [r EXCEPT !.pc = "submit",
              !.submitted = @ \cup {[task |-> r.i,
                                     params |-> taskParamsOf(r.agent, r.tasks[r.i]),
                                     result |-> Val(r.result)]}]

\* executeHandler settled (rejected: result is Undefined).  The enhanced
\* and the corrected agent fetch the executor nonce before they submit; the
\* legacy agent takes the nonce of the task.
handlerSettled(r, result) ==
    IF ~IsDefined(result) THEN taskFailed(r)
    ELSE IF Val(result).skip THEN pollFrom(r, r.i + 1)
    ELSE IF ~IsDefined(Val(result).transactions) \/ Len(Val(Val(result).transactions)) = 0
    THEN pollFrom(r, r.i + 1)
    ELSE IF r.agent = "legacy" THEN submitTask([r EXCEPT !.result = result])
    ELSE [r EXCEPT !.pc = "nonce", !.result = result]

\* What a handler resolves to.
HandlerResults ==
    { strategyResult(o) : o \in StrategyOutcomes }
        \cup {[skip |-> FALSE, message |-> "Rebalancing portfolio", transactions |-> Undefined]}

MaxTasks == 2

FetchedTasks == { TaskParams("0xA", c, Some("0xToken")) : c \in {ChainId, 1} }

FetchedLists == UNION { [1..n -> FetchedTasks] : n \in 0..MaxTasks }

InitPoll ==
    /\ EngineInit
    /\ deployed = "enhanced"
    /\ autoRebalanceEnabled = TRUE
    /\ legacy = LegacyIdle
    /\ AgentInit
    /\ StrategyIdle
    /\ NoHistory
    /\ PeripheryIdle

\* pollTasksAndSubmit is called
PollTasksAndSubmit(agent) ==
    /\ round.pc \in {"idle", "returned"}
    /\ round' = [RoundIdle EXCEPT !.agent = agent, !.pc = "fetchTasks"]
    /\ UNCHANGED <<coreVars, triggerVars, socketVars, hookVars>>

\* fetchTasks (getPendingTasks for the legacy agent) settled
PollTasksFetched(fetched) ==
    /\ round.pc = "fetchTasks"
    /\ round' = pollFetched(round, fetched)
    /\ UNCHANGED <<coreVars, triggerVars, socketVars, hookVars>>

\* executeHandler settled
PollHandlerSettled(result) ==
    /\ round.pc = "handler"
    /\ round' = handlerSettled(round, result)
    /\ UNCHANGED <<coreVars, triggerVars, socketVars, hookVars>>

\* getNonce / fetchExecutorNonce settled
PollNonceSettled(fetched) ==
    /\ round.pc = "nonce"
    /\ round' = IF fetched THEN submitTask(round) ELSE taskFailed(round)
    /\ UNCHANGED <<coreVars, triggerVars, socketVars, hookVars>>

\* executeTransaction settled: success or not, the loop goes on; so it does
\* when the call threw.
PollSubmitSettled(outcome) ==
    /\ round.pc = "submit"
    /\ round' = IF outcome = "throws" THEN taskFailed(round) ELSE pollFrom(round, round.i + 1)
    /\ UNCHANGED <<coreVars, triggerVars, socketVars, hookVars>>

NextPoll ==
    \/ \E agent \in PollingAgents : PollTasksAndSubmit(agent)
    \/ \E l \in FetchedLists : PollTasksFetched(Some(l))
    \/ PollTasksFetched(Undefined)
    \/ \E result \in HandlerResults : PollHandlerSettled(Some(result))
    \/ PollHandlerSettled(Undefined)
    \/ \E fetched \in BOOLEAN : PollNonceSettled(fetched)
    \/ \E outcome \in {"success", "failure", "throws"} : PollSubmitSettled(outcome)

SpecPoll == InitPoll /\ [][NextPoll]_vars

----------------------------------------------------------------------------
(* MonitoringWebSocket *)

MaxBroadcasts == 2

MonitoringTypes == {"automation_status", "risk_alert"}

UserAddresses == {"0xA", "0xB"}

\* MonitoringData: its type and its userAddress, if it carries one.
MonitoringData(type, userAddress) == [type |-> type, userAddress |-> userAddress]

\* this.clients.set(ws, { subscriptions: [] })
NewClient == [userAddress |-> Undefined, subscriptions |-> {}]

\* handleSubscription: the subscriptions are added; a userAddress in the
\* message replaces the registered one.
handleSubscription(client, subscriptions, userAddress) ==
    [client EXCEPT !.subscriptions = @ \cup subscriptions,
                   !.userAddress = IF IsDefined(userAddress) THEN userAddress ELSE @]

\* handleUnsubscription
handleUnsubscription(client, subscriptions) ==
    [client EXCEPT !.subscriptions = @ \ subscriptions]

\* The body of broadcast's forEach: the connections the message is
\* sent to.
recipientsOfAnyAddress(m, data) ==
    { ws \in Connections :
        /\ IsDefined(m.clients[ws])
        /\ data.type \in Val(m.clients[ws]).subscriptions
        /\ m.readyState[ws] = "OPEN" }

recipients(m, data) ==
    { ws \in Connections :
        /\ IsDefined(m.clients[ws])
        /\ data.type \in Val(m.clients[ws]).subscriptions
        /\ ~(IsDefined(data.userAddress) /\ Val(m.clients[ws]).userAddress # data.userAddress)
        /\ m.readyState[ws] = "OPEN" }

\* broadcast: nothing is sent while the server is not running.
broadcast(m, data) ==
    [m EXCEPT !.broadcasts = @ + 1, !.last = Some(data),
              !.sent = IF m.isRunning THEN recipients(m, data) ELSE {}]

InitMonitor ==
    /\ EngineInit
    /\ deployed = "enhanced"
    /\ autoRebalanceEnabled = TRUE
    /\ legacy = LegacyIdle
    /\ AgentInit
    /\ StrategyIdle
    /\ NoHistory
    /\ PeripheryIdle

\* start()
MonitorStart ==
    /\ ~monitor.isRunning
    /\ monitor' = [monitor EXCEPT !.isRunning = TRUE]
    /\ UNCHANGED <<coreVars, triggerVars, pollVars, hookVars>>

\* stop(): the open connections are closed and the clients forgotten.
MonitorStop ==
    /\ monitor.isRunning
    /\ monitor' = [monitor EXCEPT !.isRunning = FALSE,
                                  !.readyState = [ws \in Connections |->
                                                    IF @[ws] = "OPEN" THEN "CLOSING" ELSE @[ws]],
                                  !.clients = [ws \in Connections |-> Undefined]]
    /\ UNCHANGED <<coreVars, triggerVars, pollVars, hookVars>>

\* wss.on('connection')
Connection(ws) ==
    /\ monitor.readyState[ws] = "NONE"
    /\ monitor' = [monitor EXCEPT !.readyState[ws] = "OPEN", !.clients[ws] = Some(NewClient)]
    /\ UNCHANGED <<coreVars, triggerVars, pollVars, hookVars>>

\* a subscribe message of a connection; one of a connection the server
\* does not know any more is dropped.
SubscribeMessage(ws, subscriptions, userAddress) ==
    /\ monitor.readyState[ws] # "NONE"
    /\ IsDefined(monitor.clients[ws])
    /\ monitor' = [monitor EXCEPT !.clients[ws] =
                      Some(handleSubscription(Val(@), subscriptions, userAddress))]
    /\ UNCHANGED <<coreVars, triggerVars, pollVars, hookVars>>

\* an unsubscribe message of a connection
UnsubscribeMessage(ws, subscriptions) ==
    /\ monitor.readyState[ws] # "NONE"
    /\ IsDefined(monitor.clients[ws])
    /\ monitor' = [monitor EXCEPT !.clients[ws] = Some(handleUnsubscription(Val(@), subscriptions))]
    /\ UNCHANGED <<coreVars, triggerVars, pollVars, hookVars>>

\* The peer starts the closing handshake.
PeerCloses(ws) ==
    /\ monitor.readyState[ws] = "OPEN"
    /\ monitor' = [monitor EXCEPT !.readyState[ws] = "CLOSING"]
    /\ UNCHANGED <<coreVars, triggerVars, pollVars, hookVars>>

\* ws.on('close') and ws.on('error'): the client is deleted.
ConnectionClosed(ws) ==
    /\ monitor.readyState[ws] # "NONE"
    /\ monitor' = [monitor EXCEPT !.readyState[ws] = "NONE", !.clients[ws] = Undefined]
    /\ UNCHANGED <<coreVars, triggerVars, pollVars, hookVars>>

\* broadcast(data)
Broadcast(data) ==
    /\ monitor.broadcasts < MaxBroadcasts
    /\ monitor' = broadcast(monitor, data)
    /\ UNCHANGED <<coreVars, triggerVars, pollVars, hookVars>>

NextMonitor ==
    \/ MonitorStart
    \/ MonitorStop
    \/ \E ws \in Connections : Connection(ws)
    \/ \E ws \in Connections, s \in SUBSET MonitoringTypes, a \in UserAddresses :
          SubscribeMessage(ws, s, Some(a))
    \/ \E ws \in Connections, s \in SUBSET MonitoringTypes : SubscribeMessage(ws, s, Undefined)
    \/ \E ws \in Connections, s \in SUBSET MonitoringTypes : UnsubscribeMessage(ws, s)
    \/ \E ws \in Connections : PeerCloses(ws)
    \/ \E ws \in Connections : ConnectionClosed(ws)
    \/ \E t \in MonitoringTypes, a \in UserAddresses : Broadcast(MonitoringData(t, Some(a)))
    \/ \E t \in MonitoringTypes : Broadcast(MonitoringData(t, Undefined))

SpecMonitor == InitMonitor /\ [][NextMonitor]_vars

----------------------------------------------------------------------------
(* useWebSocketMonitoring *)

\* The maxReconnectAttempts option.
maxReconnectAttempts == 2

\* new WebSocket(wsUrl) in connect, after setIsConnecting(true)
newWebSocket(h) ==
    [h EXCEPT !.isConnecting = TRUE, !.wsRef = h.attempts + 1,
              !.sockets[h.attempts + 1] = "CONNECTING", !.attempts = @ + 1]

\* onopen
onopen(h) == [h EXCEPT !.isConnected = TRUE, !.isConnecting = FALSE, !.reconnectAttempts = 0]

\* onclose of socket s: a reconnect is scheduled while attempts are left.
onclose(h, s) ==
    LET down == [h EXCEPT !.isConnected = FALSE, !.isConnecting = FALSE]
    IN  IF h.reconnectAttempts < maxReconnectAttempts
        THEN [down EXCEPT !.reconnectAttempts = @ + 1, !.timers = @ \cup {s},
                          !.reconnectTimeoutRef = s]
        ELSE down

\* disconnect: the reconnect timer of the ref is cleared, the socket of the
\* ref is closed; its close event comes later.
disconnect(h) ==
    LET cleared == IF h.reconnectTimeoutRef # 0
                   THEN [h EXCEPT !.timers = @ \ {h.reconnectTimeoutRef}, !.reconnectTimeoutRef = 0]
                   ELSE h
        closed == IF h.wsRef # 0
                  THEN [cleared EXCEPT !.sockets[h.wsRef] =
                                          IF @ \in {"CONNECTING", "OPEN"} THEN "CLOSING" ELSE @,
                                       !.wsRef = 0]
                  ELSE cleared
    IN  [closed EXCEPT !.isConnected = FALSE, !.isConnecting = FALSE]

InitHook ==
    /\ EngineInit
    /\ deployed = "enhanced"
    /\ autoRebalanceEnabled = TRUE
    /\ legacy = LegacyIdle
    /\ AgentInit
    /\ StrategyIdle
    /\ NoHistory
    /\ PeripheryIdle

\* connect() called by the component: nothing happens while the hook is
\* connected or connecting.
Connect ==
    /\ hook.attempts < MaxSockets
    /\ hook' = IF hook.isConnecting \/ hook.isConnected
               THEN [hook EXCEPT !.afterDisconnect = FALSE]
               ELSE [newWebSocket(hook) EXCEPT !.afterDisconnect = FALSE]
    /\ UNCHANGED <<coreVars, triggerVars, pollVars, socketVars>>

\* disconnect() called by the component or by the cleanup of the effect
Disconnect ==
    /\ hook' = [disconnect(hook) EXCEPT !.afterDisconnect = TRUE]
    /\ UNCHANGED <<coreVars, triggerVars, pollVars, socketVars>>

\* The connection of socket s is established.
SocketOpens(s) ==
    /\ hook.sockets[s] = "CONNECTING"
    /\ hook' = [onopen(hook) EXCEPT !.sockets[s] = "OPEN", !.automatic = 0]
    /\ UNCHANGED <<coreVars, triggerVars, pollVars, socketVars>>

\* Socket s is closed: the connection failed or was lost, or close() was
\* called on it.  (onerror, which comes first when the connection failed,
\* clears isConnecting as onclose does.)
SocketCloses(s) ==
    /\ hook.sockets[s] \in {"CONNECTING", "OPEN", "CLOSING"}
    /\ hook' = [onclose(hook, s) EXCEPT !.sockets[s] = "CLOSED"]
    /\ UNCHANGED <<coreVars, triggerVars, pollVars, socketVars>>

\* A reconnect timer fires and calls the connect of the render that created
\* its socket, in which isConnecting and isConnected are false.
ReconnectTimerFires(t) ==
    /\ t \in hook.timers
    /\ hook.attempts < MaxSockets
    /\ hook' = [newWebSocket(hook) EXCEPT !.timers = @ \ {t}, !.automatic = @ + 1]
    /\ UNCHANGED <<coreVars, triggerVars, pollVars, socketVars>>

NextHook ==
    \/ Connect
    \/ Disconnect
    \/ \E s \in 1..MaxSockets : SocketOpens(s)
    \/ \E s \in 1..MaxSockets : SocketCloses(s)
    \/ \E t \in 1..MaxSockets : ReconnectTimerFires(t)

SpecHook == InitHook /\ [][NextHook]_vars

\* The values of the time_based triggers of a scenario.
TimeTriggerValues(scenario) ==
    IF scenario.triggers.ok
    THEN { scenario.triggers.list[k].value :
             k \in { k \in 1..Len(scenario.triggers.list) :
                       scenario.triggers.list[k].type = "time_based" } }
    ELSE {}

(* C16: a scenario with a time_based trigger of value V that executed in an
   earlier cycle is not triggered again (it is not handed to its executor)
   less than V seconds after that execution. *)
C16_TimeTriggerHoldsOffAfterExecution ==
    \A j \in Range(cycle.dispatched) :
        \A e \in executions :
            (/\ e.owner = cycle.owner
             /\ e.scenarioId = cycle.scenarios[j].id
             /\ e.cycle < cycles)
                => \A V \in TimeTriggerValues(cycle.scenarios[j]) : now - e.at >= V * 1000

\* What a finished calculation of the given name was called with and returned.
HasReturned(name) == IsDefined(strategyOutput) /\ Val(strategyOutput).call.name = name

WithinPercent(score) == score.den > 0 /\ 0 <= score.num /\ score.num <= 100 * score.den

(* C17: the three scores of calculatePortfolioMetrics lie in [0,100]; the
   diversification score is 0 for no position, 20 for exactly one, and
   100 * (1 - sum of the squared weights) for two or more positions with a
   positive total. *)
C17_ScoresWithinRange ==
    HasReturned("calculatePortfolioMetrics") =>
        LET positions == Val(strategyInput).positions
            metrics == Val(strategyOutput).result
            total == SumOf([k \in 1..Len(positions) |-> positions[k].suppliedAmount])
            squares == SumOf([k \in 1..Len(positions) |->
                                positions[k].suppliedAmount * positions[k].suppliedAmount])
        IN  /\ WithinPercent(metrics.diversificationScore)
            /\ WithinPercent(metrics.riskScore)
            /\ WithinPercent(metrics.liquidityScore)
            /\ Len(positions) = 0 => metrics.diversificationScore = Whole(0)
            /\ Len(positions) = 1 => metrics.diversificationScore = Whole(20)
            /\ (Len(positions) >= 2 /\ total > 0) =>
                   metrics.diversificationScore
                     = Fraction(100 * (total * total - squares), total * total)

C17_Witness ==
    /\ HasReturned("calculatePortfolioMetrics")
    /\ Len(Val(strategyInput).positions) >= 2
    /\ Val(strategyOutput).result.diversificationScore.num > 0
    /\ Val(strategyOutput).result.riskScore.num > 0

(* C18: calculateOptimalWithdrawAmount returns "0" for a health factor of at
   most 2 or below the configured minimum; otherwise half of the supplied
   amount for a health factor above 3 and a quarter of it for one above 2
   and at most 3, written with six decimals. *)
C18_WithdrawAmountByHealthFactor ==
    HasReturned("calculateOptimalWithdrawAmount") =>
        LET position == Val(strategyInput).positions[Val(strategyOutput).call.position]
            minimum == Val(strategyInput).riskLimits.minHealthFactor
            result == Val(strategyOutput).result
            \* the result is amount / d to within half a millionth
            Is(d) == /\ result # Zero
                     /\ 20 * d * result.millionths - 2 * position.suppliedAmount <= 10 * d
                     /\ 2 * position.suppliedAmount - 20 * d * result.millionths <= 10 * d
        IN  IF position.healthFactor <= 20 \/ position.healthFactor < minimum THEN result = Zero
            ELSE IF position.healthFactor > 30 THEN Is(2)
            ELSE Is(4)

C18_Witness ==
    /\ HasReturned("calculateOptimalWithdrawAmount")
    /\ Val(strategyOutput).result # Zero
    /\ Val(strategyOutput).result.millionths > 0
    /\ Val(strategyInput).positions[Val(strategyOutput).call.position].healthFactor <= 30

(* C19: shouldRebalance returns true when the health factor is below the
   configured minimum, or the overall risk is high, or netAPY is below
   targetAPY less the configured threshold fraction of the target, or the
   best opportunity's APY exceeds netAPY by more than minYieldThreshold taken
   in the unit of the APYs; and false when none of the four holds. *)
C19_ShouldRebalanceIffAnyCondition ==
    HasReturned("shouldRebalance") =>
        LET i == Val(strategyInput)
            fraction == i.config.rebalanceThreshold
            belowTarget == /\ IsDefined(i.targetAPY)
                           /\ i.netAPY * fraction.den < Val(i.targetAPY) * (fraction.den - fraction.num)
            opportunities == IF i.opportunities.success /\ IsDefined(i.opportunities.data)
                             THEN Val(i.opportunities.data) ELSE << >>
            betterOpportunity == /\ opportunities # << >>
                                 /\ opportunities[1] - i.netAPY > 100 * i.config.minYieldThreshold
        IN  Val(strategyOutput).result =
                (\/ i.healthFactor < i.riskLimits.minHealthFactor
                 \/ i.overallRisk = "high"
                 \/ belowTarget
                 \/ betterOpportunity)

\* The positions of the results that executeScenario returned and the
\* tracker was given: not those the loop itself pushed for unmet triggers or
\* in its catch block.
TrackedResults(results) ==
    { k \in 1..Len(results) :
        results[k].message \notin {TriggersNotMet(cycle.scenarios[1]).message,
                                   LoopError(cycle.scenarios[1]).message} }

(* C21: the metrics of the context a cycle works on agree with the results
   it has recorded: totalExecutions is the number of recorded results, and
   successRate is the number of recorded results with success = true
   divided by totalExecutions, between 0 and 1. *)
C21_MetricsAgreeWithOutcomes ==
    (pc # "idle" /\ cycle.results # << >>) =>
        LET metrics == cycle.performanceMetrics
            tracked == TrackedResults(cycle.results)
            successes == { k \in tracked : cycle.results[k].success }
        IN  /\ metrics.totalExecutions = Cardinality(tracked)
            /\ metrics.successRate.num >= 0
            /\ metrics.successRate.num <= metrics.successRate.den
            /\ metrics.totalExecutions > 0 =>
                   metrics.successRate = Fraction(Cardinality(successes), metrics.totalExecutions)

\* The signal compared with the trigger's value under the trigger's comparison.
Satisfied(trigger, signal) ==
    CASE trigger.comparison = "greater_than" -> signal > trigger.value
      [] trigger.comparison = "less_than" -> signal < trigger.value
      [] trigger.comparison = "equals" -> signal = trigger.value

(* C22: a price_based, apy_based, health_factor, profit_threshold or
   loss_threshold trigger is evaluated to true only when the live signal
   compared with trigger.value under trigger.comparison is satisfied. *)
C22_SignalTriggerHoldsOnlyWhenSatisfied ==
    (/\ IsDefined(evaluation)
     /\ Val(evaluation).trigger.type \in SignalTypes
     /\ Val(evaluation).result = Some(TRUE))
        => Satisfied(Val(evaluation).trigger, Val(evaluation).signal)

\* The actions generateRebalanceActions returned.
ReturnedActions == Val(strategyOutput).result

DepositsReturned == { k \in 1..Len(ReturnedActions) : ReturnedActions[k].type = "deposit" }

(* C23: with overallRisk high, the returned actions hold, for every position
   with a borrowed amount above 0 and a health factor below 1.5, a repay
   action of 30% of that position's borrowed amount. *)
C23_RepayActionsWhenRiskHigh ==
    (HasReturned("generateRebalanceActions") /\ Val(strategyInput).overallRisk = "high") =>
        \A k \in 1..Len(Val(strategyInput).positions) :
            LET position == Val(strategyInput).positions[k]
            IN  (position.borrowedAmount > 0 /\ position.healthFactor < 15) =>
                    \E a \in 1..Len(ReturnedActions) :
                        /\ ReturnedActions[a].type = "repay"
                        /\ ReturnedActions[a].market = position.symbol
                        /\ 100 * ReturnedActions[a].amount.millionths - 3 * position.borrowedAmount <= 50
                        /\ 3 * position.borrowedAmount - 100 * ReturnedActions[a].amount.millionths <= 50

(* C24: every returned action has an expectedGain, and it is strictly greater
   than minYieldThreshold. *)
C24_ReturnedActionsGainAboveThreshold ==
    HasReturned("generateRebalanceActions") =>
        \A a \in 1..Len(ReturnedActions) :
            /\ IsDefined(ReturnedActions[a].expectedGain)
            /\ Val(ReturnedActions[a].expectedGain).millionths
                 > Val(strategyInput).config.minYieldThreshold * 1000000

\* The opportunity of a market, and how many opportunities the owner's risk
\* tolerance admits score more than it.
OpportunityOf(market) ==
    CHOOSE o \in Range(Val(strategyInput).opportunities) : o.market = market

RankedAbove(opportunity) ==
    Cardinality({ o \in Range(Val(strategyInput).opportunities) :
                    /\ o.risk # "high" \/ Val(strategyInput).config.riskTolerance = "high"
                    /\ calculateRiskAdjustedYield(o) > calculateRiskAdjustedYield(opportunity) })

RECURSIVE SumOfDeposits(_)
SumOfDeposits(positions) ==
    IF positions = {} THEN 0
    ELSE LET k == CHOOSE k \in positions : TRUE
         IN  ReturnedActions[k].amount.millionths + SumOfDeposits(positions \ {k})

(* C25: at most 3 deposits are proposed, each for one of the three
   opportunities ranked highest by risk-adjusted yield, each of at least
   $100 and at most 5% of its market's liquidity, and together not more than
   the configured maximum position size. *)
C25_DepositsBounded ==
    HasReturned("generateRebalanceActions") =>
        /\ Cardinality(DepositsReturned) <= 3
        /\ \A k \in DepositsReturned :
               LET opportunity == OpportunityOf(ReturnedActions[k].market)
                   amount == ReturnedActions[k].amount.millionths
               IN  /\ RankedAbove(opportunity) < 3
                   /\ amount >= 100 * 1000000
                   /\ (amount + 49999) \div 50000 <= opportunity.liquidity
        /\ SumOfDeposits(DepositsReturned) <= Val(strategyInput).config.maxPositionSize * 1000000

C25_Witness ==
    /\ HasReturned("generateRebalanceActions")
    /\ Cardinality(DepositsReturned) = 3
    /\ Len(Val(strategyInput).opportunities) > 3
    /\ \E k \in DepositsReturned :
           ReturnedActions[k].amount.millionths
             < OpportunityOf(ReturnedActions[k].market).liquidity * 50000

Pending(k) == calls[k].pc \notin {"none", "returned"}

(* C26: once the workflow state is COMPLETED or FAILED, every start() call
   that is still polling eventually returns. *)
C26_CompletedWorkflowEndsPolling ==
    \A k \in 1..MaxStarts :
        (workflow \in {"COMPLETED", "FAILED"} /\ Pending(k)) ~> (calls[k].pc = "returned")

(* C27: after stop(), the pending start() call eventually returns, unless
   the agent is started again first. *)
C27_StopEndsPolling ==
    \A k \in 1..MaxStarts :
        (~isRunning /\ Pending(k)) ~> (calls[k].pc = "returned" \/ isRunning)

----------------------------------------------------------------------------
(* C28: pollTasksAndSubmit submits a task only if its chain id is the
   agent's and its handler result has skip = false and a transaction list
   that is not empty; and an error while one task is processed never keeps
   the loop from the tasks after it: a call that fetched its tasks returns
   true only after the loop reached every one of them, and after a task
   failed the loop is at a later task or the call has returned true. *)
C28_OnlyOwnChainTasksSubmittedAndErrorsContained ==
    /\ \A s \in round.submitted :
          /\ s.params.chainID = ChainId
          /\ s.params = taskParamsOf(round.agent, round.tasks[s.task])
          /\ ~s.result.skip
          /\ IsDefined(s.result.transactions)
          /\ Len(Val(s.result.transactions)) > 0
    /\ \A f \in round.failed :
          \/ round.pc \in {"handler", "nonce", "submit"} /\ round.i > f
          \/ round.pc = "returned" /\ round.ret = Some(TRUE)
    /\ (round.pc = "returned" /\ round.ret = Some(TRUE)) => round.handled = 1..Len(round.tasks)

\* The first task threw, the second was submitted, and the call returned.
C28_Witness ==
    /\ round.pc = "returned"
    /\ Len(round.tasks) = 2
    /\ 1 \in round.failed
    /\ \E s \in round.submitted : s.task = 2 /\ s.params.chainID = ChainId

----------------------------------------------------------------------------
\* The client registered for connection ws when broadcast was called.
ClientAt(ws) == monitor.clients[ws]

(* C29: whatever subscribe, unsubscribe, connection and close events came
   before, a broadcast sends its message only to connections whose client
   is, at that moment, subscribed to the type of the message; a message that
   carries a userAddress goes only to clients registered with that very
   address; and a broadcast sends nothing while the server is not running
   (before start() and after stop()). *)
C29_BroadcastReachesOnlySubscribers ==
    [][monitor'.broadcasts # monitor.broadcasts =>
          \A ws \in monitor'.sent :
              /\ monitor.isRunning
              /\ IsDefined(ClientAt(ws))
              /\ Val(monitor'.last).type \in Val(ClientAt(ws)).subscriptions
              /\ IsDefined(Val(monitor'.last).userAddress) =>
                    Val(ClientAt(ws)).userAddress = Val(monitor'.last).userAddress]_vars

\* A message for 0xA went to one connection and not to another that is
\* open and subscribed to its type, but registered for 0xB.
C29_Witness ==
    /\ monitor.isRunning
    /\ monitor.last = Some(MonitoringData("risk_alert", Some("0xA")))
    /\ monitor.sent = {"ws1"}
    /\ IsDefined(monitor.clients["ws2"])
    /\ "risk_alert" \in Val(monitor.clients["ws2"]).subscriptions
    /\ Val(monitor.clients["ws2"]).userAddress = Some("0xB")
    /\ monitor.readyState["ws2"] = "OPEN"

----------------------------------------------------------------------------
(* C30: after disconnect() the hook creates no further socket until
   connect() is called again (the close that disconnect() causes schedules
   no reconnect), and between two successful opens the reconnect timers
   create at most maxReconnectAttempts sockets. *)
C30_NoReconnectAfterDisconnect ==
    [][/\ (hook.afterDisconnect /\ hook'.afterDisconnect) => hook'.attempts = hook.attempts
       /\ hook'.automatic <= maxReconnectAttempts]_vars

====
